---- MODULE Spec2Model ----
(***************************************************************************)
(* City-growth simulator (src/city_sim/city_sim.cpp): the grid, the        *)
(* building records, the road and water-cell sequences, the cars and the   *)
(* step counter, with initializeGrid and simulationStep as state machines. *)
(*                                                                         *)
(* Cells are pairs <<x, y>>, grid[<<x, y>>] is the source's grid[x][y].    *)
(* Car positions are floats in the source; here they are integers counting *)
(* 1/Scale of a cell, and static_cast<int> is Trunc (toward zero).         *)
(* Building.style, Building.variant, Building.hasCar, Car.color and the    *)
(* water animation phase are written but never read by the simulation (the *)
(* drawing code reads them); they are left out of the state.               *)
(***************************************************************************)
EXTENDS Integers, Sequences, FiniteSets, TLC

\* ------------------------------------------------------------- bounds
\* GRID_WIDTH and GRID_HEIGHT (80 x 45 in the source) scaled down.
GRID_WIDTH == 3
GRID_HEIGHT == 3
\* Sub-cell resolution of a car position: one unit is 1/Scale of a cell.
Scale == 5
\* A run is followed for StepLimit steps, or for LongStepLimit steps where the
\* city is nearly built up and the cars are what moves.
StepLimit == 2
LongStepLimit == 8
\* Number of cars generateInitialRoads adds (15 in the source).
InitialCars == 1
\* The cars placed at initialization in the scene in which cars are spawned.  In the
\* source the 15 initial cars are fewer than a fifth of the road cells the arterials
\* give on the 80 x 45 grid; on the small grid only no car is.
SpawnSceneCars == 0
\* generateTerrain and generateInitialRoads draw from ranges sized for the 80 x 45
\* grid; the model draws from ranges of the same shape sized for the small grid.
\* Start points lie in [TerrainMargin, GRID_WIDTH - TerrainMargin] (5 in the source).
TerrainMargin == 1
\* 1..3 water bodies, 2..5 forests, 1..3 farms in the source
MaxWaterBodies == 1
MaxForests == 1
MaxFarms == 1
\* river length 15..34, lake budget 20..40, forest budget 10..30, farm side 5..10
MaxRiverLength == 1
MaxLakeSize == 1
MaxForestSize == 1
MaxFarmSide == 1
\* INITIAL_ROADS (30 in the source) and the branch length 5..15
INITIAL_ROADS == 1
\* the size budget of the lake generated on its own (20..40 in the source)
LakeBudget == 4
\* the length of the river and the size budget of the forest generated on their own
\* (15..34 and 10..30 in the source)
RiverLength == 3
ForestBudget == 3
MaxBranchLength == 1
\* The frames the main loop is followed for
FrameLimit == 4
\* The grid on which a lot lies between two buildings (80 x 45 in the source)
BlockWidth == 4
BlockHeight == 3

\* ---------------------------------------------------------- constants
MAX_SIMULATION_STEPS == 10000

EMPTY == 0
ROAD == 1
RESIDENTIAL == 2
COMMERCIAL == 3
INDUSTRIAL == 4
WATER == 5
PARK == 6
POWER_PLANT == 7
GOVERNMENT == 8
FOREST == 9
FARM == 10

CellType == EMPTY..FARM

\* Direction vectors, indexed 0..7 in the source: dx[d] is dxs[d + 1].
dxs == <<-1, 0, 1, 0, -1, -1, 1, 1>>
dys == <<0, 1, 0, -1, -1, 1, 1, -1>>
dx(d) == dxs[d + 1]
dy(d) == dys[d + 1]

Cells == (0..(GRID_WIDTH - 1)) \X (0..(GRID_HEIGHT - 1))

VARIABLES
    grid,          \* [Cells -> CellType]
    buildings,     \* [Cells -> [type, density, age, hasTree]]
    cars,          \* sequence of [x, y, speed, direction, roadIndex]
    roads,         \* sequence of cells
    waterCells,    \* sequence of cells
    currentStep,   \* the step counter
    lastStep,      \* the run is followed until currentStep reaches this value
    pc,            \* position in main / initializeGrid / simulationStep
    spots,         \* growCity: the entries of the shuffled spot list the loop reads
    idx,           \* growCity: the loop index i
    todo,          \* initializeGrid: iterations left of the loop being run
    atStepStart,   \* grid, buildings and cars as they were when simulationStep was entered
    game           \* the GameState of the Hot/Cold game (src/hotcold/hotcold.c)

vars == <<grid, buildings, cars, roads, waterCells, currentStep, lastStep, pc,
          spots, idx, todo, atStepStart, game>>

\* Hot/Cold is a program of its own: while the city simulator runs there is no game
NoGame == <<>>

\* ------------------------------------------------------------ helpers
Min(a, b) == IF a < b THEN a ELSE b

\* The bounds test with both upper bounds taken inclusive
isValidCellInclusive(x, y) == x >= 0 /\ x <= GRID_WIDTH /\ y >= 0 /\ y <= GRID_HEIGHT

isValidCell(x, y) == x >= 0 /\ x < GRID_WIDTH /\ y >= 0 /\ y < GRID_HEIGHT

\* grid[x][y] == type, guarded by isValidCell as every such read in the source is
TagIs(g, x, y, type) == isValidCell(x, y) /\ g[<<x, y>>] = type

countNeighborsOfType(g, x, y, type) ==
    Cardinality({d \in 0..3 : TagIs(g, x + dx(d), y + dy(d), type)})

countNeighborsOfTypeInRadius(g, x, y, type, radius) ==
    Cardinality({o \in ((-radius)..radius) \X ((-radius)..radius) :
                    /\ ~(o[1] = 0 /\ o[2] = 0)
                    /\ TagIs(g, x + o[1], y + o[2], type)})

EmptyBuilding == [type |-> EMPTY, density |-> 0, age |-> 0, hasTree |-> FALSE]

\* static_cast<int>(float): truncation toward zero
Trunc(p) == IF p >= 0 THEN p \div Scale ELSE -((-p) \div Scale)

\* The speeds dist_speed(0.05f, 0.2f) can give, in units of 1/Scale cell per tick
Speeds == {s \in 1..Scale : 20 * s >= Scale /\ 5 * s <= Scale}

\* All sequences of n pairwise different indices into 1..m: the positions a
\* std::shuffle can bring to the front of a list of m entries
FrontIndices(n, m) ==
    {f \in [1..n -> 1..m] : \A a, b \in 1..n : a # b => f[a] # f[b]}

ShuffledFront(list, n) ==
    {[k \in 1..n |-> list[f[k]]] : f \in FrontIndices(n, Len(list))}

RECURSIVE Concat(_, _)
\* the concatenation of f(1), ..., f(n)
Concat(f, n) == IF n = 0 THEN <<>> ELSE Concat(f, n - 1) \o f[n]

IsBuildingTag(t) == t # EMPTY /\ t # ROAD /\ t # WATER

\* ------------------------------------------------------------ updateCars
\* The cell a float position lies in, as the source computes it
CarCell(px, py) == <<Trunc(px), Trunc(py)>>

\* The condition with the test of the tag left out
BlockedOffGridOnly(g, px, py) == ~isValidCell(Trunc(px), Trunc(py))

\* The condition of the if at lines 443-444 for the position (px, py)
Blocked(g, px, py) ==
    \/ ~isValidCell(Trunc(px), Trunc(py))
    \/ g[CarCell(px, py)] # ROAD

\* The directions with the test of the tag left out
possibleDirsAnyTag(g, car) ==
    {d \in 0..3 :
        /\ d # (car.direction + 2) % 4
        /\ isValidCell(Trunc(car.x) + dx(d), Trunc(car.y) + dy(d))}

\* The directions with the reverse of the current one not passed over
possibleDirsWithReverse(g, car) ==
    {d \in 0..3 : TagIs(g, Trunc(car.x) + dx(d), Trunc(car.y) + dy(d), ROAD)}

\* possibleDirs of lines 447-457
possibleDirs(g, car) ==
    {d \in 0..3 :
        /\ d # (car.direction + 2) % 4
        /\ TagIs(g, Trunc(car.x) + dx(d), Trunc(car.y) + dy(d), ROAD)}

\* The move with dx used for both coordinates
MovedBothAxes(car, d) ==
    [car EXCEPT !.direction = d,
                !.x = car.x + dx(d) * car.speed,
                !.y = car.y + dx(d) * car.speed]

\* lines 439-440, 462-466, 482-483: the car after a move in direction d
Moved(car, d) ==
    [car EXCEPT !.direction = d,
                !.x = car.x + dx(d) * car.speed,
                !.y = car.y + dy(d) * car.speed]

\* lines 468-477: a random entry of roads, a random direction, no move
Teleported(car, rds) ==
    {[car EXCEPT !.roadIndex = r,
                 !.x = rds[r + 1][1] * Scale,
                 !.y = rds[r + 1][2] * Scale,
                 !.direction = d] : r \in 0..(Len(rds) - 1), d \in 0..3}

\* One iteration of the loop at lines 437-484: the values the car can have after it
updateCar(g, rds, car) ==
    LET nextX == car.x + dx(car.direction) * car.speed
        nextY == car.y + dy(car.direction) * car.speed
    IN  IF Blocked(g, nextX, nextY)
        THEN IF possibleDirs(g, car) # {}
             THEN {Moved(car, d) : d \in possibleDirs(g, car)}
             ELSE Teleported(car, rds)
        ELSE {Moved(car, car.direction)}

RECURSIVE updateAll(_, _, _, _)
\* the loop over the first n cars
updateAll(g, rds, cs, n) ==
    IF n = 0 THEN {<<>>}
    ELSE {Append(s, c) : s \in updateAll(g, rds, cs, n - 1),
                         c \in updateCar(g, rds, cs[n])}

\* The cars with the road index counted from 1
addRandomCarIndexFromOne(rds) ==
    {[x |-> rds[r + 1][1] * Scale, y |-> rds[r + 1][2] * Scale,
      speed |-> s, direction |-> d, roadIndex |-> r + 1] :
        r \in 0..(Len(rds) - 1), s \in Speeds, d \in 0..3}

\* addRandomCar, lines 404-431: the cars it can append (none when roads is empty)
addRandomCar(rds) ==
    {[x |-> rds[r + 1][1] * Scale, y |-> rds[r + 1][2] * Scale,
      speed |-> s, direction |-> d, roadIndex |-> r] :
        r \in 0..(Len(rds) - 1), s \in Speeds, d \in 0..3}

\* updateCars with the cap on the number of cars left out of the test of line 487
updateCarsNoCap(g, rds, cs) ==
    IF Len(rds) = 0 THEN {cs}
    ELSE LET moved == updateAll(g, rds, cs, Len(cs))
         IN  moved \cup {Append(m, c) : m \in moved, c \in addRandomCar(rds)}

\* updateCars, lines 434-490: the values of cars after the call
updateCars(g, rds, cs) ==
    IF Len(rds) = 0 THEN {cs}
    ELSE LET moved == updateAll(g, rds, cs, Len(cs))
         IN  moved \cup
             (IF Len(cs) < Len(rds) \div 5
              THEN {Append(m, c) : m \in moved, c \in addRandomCar(rds)}
              ELSE {})

\* -------------------------------------------------------------- growCity
\* lines 512-521: the Empty in-grid neighbours of one road cell, in the order d = 0..3
SpotsOfRoad(g, r) ==
    SelectSeq([d \in 1..4 |-> <<r[1] + dx(d - 1), r[2] + dy(d - 1)>>],
              LAMBDA n : TagIs(g, n[1], n[2], EMPTY))

\* buildingSpots before the shuffle: one entry per (road cell, direction) pair
buildingSpots(g, rds) ==
    Concat([k \in 1..Len(rds) |-> SpotsOfRoad(g, rds[k])], Len(rds))

maxBuildingsPerStep(step) == 1 + step \div 50

\* dist_type(0, 100) and dist_tree(0, 100): one value between every two thresholds
RandTypes == {0, 60, 75, 80, 85, 96}
TreeRolls == {0, 40}

\* The type with the test of the roll left out of the Water override
BuildingTypeWaterAnyRoll(g, x, y, randType, step) ==
    LET base == IF randType < 60 THEN RESIDENTIAL
                ELSE IF randType < 85 THEN COMMERCIAL ELSE INDUSTRIAL
        nearWater == IF countNeighborsOfTypeInRadius(g, x, y, WATER, 3) > 0
                     THEN RESIDENTIAL ELSE base
        nearGreen == IF /\ \/ countNeighborsOfTypeInRadius(g, x, y, PARK, 3) > 0
                           \/ countNeighborsOfTypeInRadius(g, x, y, FOREST, 3) > 0
                        /\ randType < 75
                     THEN RESIDENTIAL ELSE nearWater
    IN  IF randType > 95 /\ step > 50 THEN PARK ELSE nearGreen

\* lines 539-565
BuildingType(g, x, y, randType, step) ==
    LET base == IF randType < 60 THEN RESIDENTIAL
                ELSE IF randType < 85 THEN COMMERCIAL ELSE INDUSTRIAL
        nearWater == IF countNeighborsOfTypeInRadius(g, x, y, WATER, 3) > 0 /\ randType < 80
                     THEN RESIDENTIAL ELSE base
        nearGreen == IF /\ \/ countNeighborsOfTypeInRadius(g, x, y, PARK, 3) > 0
                           \/ countNeighborsOfTypeInRadius(g, x, y, FOREST, 3) > 0
                        /\ randType < 75
                     THEN RESIDENTIAL ELSE nearWater
    IN  IF randType > 95 /\ step > 50 THEN PARK ELSE nearGreen

\* The placement with the assignment of line 569 left out
PlacedRecordNoType(old, type, treeRoll) ==
    [type |-> old.type, density |-> 1, age |-> 0,
     hasTree |-> IF (type = RESIDENTIAL \/ type = COMMERCIAL) /\ treeRoll < 40
                 THEN TRUE ELSE old.hasTree]

\* The placement with the age started at 1
PlacedRecordAgeOne(old, type, treeRoll) ==
    [type |-> type, density |-> 1, age |-> 1,
     hasTree |-> IF (type = RESIDENTIAL \/ type = COMMERCIAL) /\ treeRoll < 40
                 THEN TRUE ELSE old.hasTree]

\* The placement with the assignment of line 570 left out
PlacedRecordNoDensity(old, type, treeRoll) ==
    [type |-> type, density |-> old.density, age |-> 0,
     hasTree |-> IF (type = RESIDENTIAL \/ type = COMMERCIAL) /\ treeRoll < 40
                 THEN TRUE ELSE old.hasTree]

\* lines 567-578: the record of a cell after a building of this type is placed on it
PlacedRecord(old, type, treeRoll) ==
    [type |-> type, density |-> 1, age |-> 0,
     hasTree |-> IF (type = RESIDENTIAL \/ type = COMMERCIAL) /\ treeRoll < 40
                 THEN TRUE ELSE old.hasTree]

\* The test of lines 588-589 with the test of the tag left out
PromoteDueAnyTag(tag, b) ==
    /\ b.age % 20 = 0
    /\ b.density < 3
    /\ tag \in CellType

\* The test of lines 588-589 with the cap density < 3 left out
PromoteDueNoCap(tag, b) ==
    /\ b.age % 20 = 0
    /\ tag \in {RESIDENTIAL, COMMERCIAL, INDUSTRIAL}

\* line 588-589: the draw of line 590 is made for a cell with this tag whose record,
\* after the increment of line 585, is b
PromoteDue(tag, b) ==
    /\ b.age % 20 = 0
    /\ b.density < 3
    /\ tag \in {RESIDENTIAL, COMMERCIAL, INDUSTRIAL}

\* line 597: the draw of line 598 is made
TreeDue(tag, b) == ~b.hasTree /\ tag = RESIDENTIAL /\ b.age % 30 = 0

\* The maturation of one cell that passes over Forest and Farm cells
MatureRecordBuildingsOnly(tag, b, promote, tree) ==
    IF ~IsBuildingTag(tag) \/ tag \in {FOREST, FARM} THEN b
    ELSE LET aged == [b EXCEPT !.age = b.age + 1]
             grown == IF PromoteDue(tag, aged) /\ promote
                      THEN [aged EXCEPT !.density = aged.density + 1] ELSE aged
         IN  IF TreeDue(tag, grown) /\ tree
             THEN [grown EXCEPT !.hasTree = TRUE] ELSE grown

\* The maturation of one cell with the age starting over at every promotion
MatureRecordAgeRestarts(tag, b, promote, tree) ==
    IF ~IsBuildingTag(tag) THEN b
    ELSE LET aged == [b EXCEPT !.age = b.age + 1]
         IN  IF PromoteDue(tag, aged) /\ promote
             THEN [aged EXCEPT !.density = aged.density + 1, !.age = 0]
             ELSE IF TreeDue(tag, aged) /\ tree
                  THEN [aged EXCEPT !.hasTree = TRUE] ELSE aged

\* lines 584-601 for one cell: promote and tree are the outcomes of the two draws
MatureRecord(tag, b, promote, tree) ==
    IF ~IsBuildingTag(tag) THEN b
    ELSE LET aged == [b EXCEPT !.age = b.age + 1]
             grown == IF PromoteDue(tag, aged) /\ promote
                      THEN [aged EXCEPT !.density = aged.density + 1] ELSE aged
         IN  IF TreeDue(tag, grown) /\ tree
             THEN [grown EXCEPT !.hasTree = TRUE] ELSE grown

\* The cells for which the draw of line 590, resp. line 598, is made in this pass
PromoteDraws(g, b) ==
    {c \in Cells : IsBuildingTag(g[c]) /\ PromoteDue(g[c], [b[c] EXCEPT !.age = b[c].age + 1])}
TreeDraws(g, b) ==
    {c \in Cells : IsBuildingTag(g[c]) /\ TreeDue(g[c], [b[c] EXCEPT !.age = b[c].age + 1])}

\* The grid in the order of the loops for x, for y
ScanCell(k) == <<(k - 1) \div GRID_HEIGHT, (k - 1) % GRID_HEIGHT>>

\* The road spots of a cell with the test for EMPTY of line 618 left out
RoadSpotsOfCellAnyTag(g, c) ==
    IF ~IsBuildingTag(g[c]) THEN <<>>
    ELSE SelectSeq([d \in 1..4 |-> <<c[1] + dx(d - 1), c[2] + dy(d - 1)>>],
                   LAMBDA n : /\ isValidCell(n[1], n[2])
                              /\ countNeighborsOfType(g, n[1], n[2], ROAD) > 0)

\* The road spots of a cell with the test for a Road neighbour of line 620 left out
RoadSpotsOfCellNoRoadTest(g, c) ==
    IF ~IsBuildingTag(g[c]) THEN <<>>
    ELSE SelectSeq([d \in 1..4 |-> <<c[1] + dx(d - 1), c[2] + dy(d - 1)>>],
                   LAMBDA n : TagIs(g, n[1], n[2], EMPTY))

\* lines 613-635 for one cell (x, y)
RoadSpotsOfCell(g, c) ==
    IF ~IsBuildingTag(g[c]) THEN <<>>
    ELSE SelectSeq([d \in 1..4 |-> <<c[1] + dx(d - 1), c[2] + dy(d - 1)>>],
                   LAMBDA n : /\ TagIs(g, n[1], n[2], EMPTY)
                              /\ countNeighborsOfType(g, n[1], n[2], ROAD) > 0)

\* roadSpots before the shuffle
roadSpots(g) ==
    Concat([k \in 1..(GRID_WIDTH * GRID_HEIGHT) |-> RoadSpotsOfCell(g, ScanCell(k))],
           GRID_WIDTH * GRID_HEIGHT)

\* No road admitted at any step
maxRoadsPerStepNone(step) == 0 * step

maxRoadsPerStep(step) == 1 + step \div 100

\* The first part of a step that goes on to growCity whatever the step counter is
StepUpdateCarsGrowAlways ==
    /\ pc = "idle"
    /\ currentStep < MAX_SIMULATION_STEPS
    /\ currentStep < lastStep
    /\ cars' \in updateCars(grid, roads, cars)
    /\ atStepStart' = [grid |-> grid, buildings |-> buildings, cars |-> cars,
                       roads |-> roads]
    /\ pc' = "collect"
    /\ UNCHANGED <<grid, buildings, roads, waterCells, currentStep, lastStep, spots, idx, todo, game>>

\* ------------------------------------------------------- simulationStep
\* simulationStep, lines 1165-1170, called from the main loop (line 1275 guards it):
\* updateCars, then the test of line 1173
StepUpdateCars ==
    /\ pc = "idle"
    /\ currentStep < MAX_SIMULATION_STEPS
    /\ currentStep < lastStep
    /\ cars' \in updateCars(grid, roads, cars)
    /\ atStepStart' = [grid |-> grid, buildings |-> buildings, cars |-> cars,
                       roads |-> roads]
    /\ pc' = IF currentStep % 3 = 0 THEN "collect" ELSE "inc"
    /\ UNCHANGED <<grid, buildings, roads, waterCells, currentStep, lastStep, spots, idx, todo, game>>

\* The collection with every Empty cell of the grid taken for a spot
GrowCollectAnyEmpty ==
    /\ pc = "collect"
    /\ LET list == SelectSeq([k \in 1..(GRID_WIDTH * GRID_HEIGHT) |-> ScanCell(k)],
                             LAMBDA c : grid[c] = EMPTY)
           newBuildings == Min(maxBuildingsPerStep(currentStep), Len(list))
       IN  spots' \in ShuffledFront(list, newBuildings)
    /\ idx' = 0
    /\ pc' = "build"
    /\ UNCHANGED <<grid, buildings, cars, roads, waterCells, currentStep, lastStep,
                   todo, atStepStart, game>>

\* growCity, lines 510-531: collect, shuffle, and fix the number of new buildings
GrowCollect ==
    /\ pc = "collect"
    /\ LET list == buildingSpots(grid, roads)
           newBuildings == Min(maxBuildingsPerStep(currentStep), Len(list))
       IN  spots' \in ShuffledFront(list, newBuildings)
    /\ idx' = 0
    /\ pc' = "build"
    /\ UNCHANGED <<grid, buildings, cars, roads, waterCells, currentStep, lastStep,
                   todo, atStepStart, game>>

\* growCity, lines 533-579: one iteration of the placement loop
GrowPlaceBuilding ==
    /\ pc = "build"
    /\ idx < Len(spots)
    /\ \E randType \in RandTypes, treeRoll \in TreeRolls :
         LET c == spots[idx + 1]
             type == BuildingType(grid, c[1], c[2], randType, currentStep)
         IN  /\ grid' = [grid EXCEPT ![c] = type]
             /\ buildings' = [buildings EXCEPT ![c] = PlacedRecord(@, type, treeRoll)]
    /\ idx' = idx + 1
    /\ UNCHANGED <<cars, roads, waterCells, currentStep, lastStep, pc, spots, todo, atStepStart, game>>

\* growCity, lines 581-642: the maturation pass, then (every 10th step) the scan for
\* road spots, their shuffle and the number of new roads
GrowMature ==
    /\ pc = "build"
    /\ idx >= Len(spots)
    /\ \E P \in SUBSET PromoteDraws(grid, buildings), T \in SUBSET TreeDraws(grid, buildings) :
         buildings' = [c \in Cells |-> MatureRecord(grid[c], buildings[c], c \in P, c \in T)]
    /\ IF currentStep % 10 = 0
       THEN LET list == roadSpots(grid)
                newRoads == Min(maxRoadsPerStep(currentStep), Len(list))
            IN  /\ spots' \in ShuffledFront(list, newRoads)
                /\ pc' = "roads"
       ELSE /\ spots' = <<>>
            /\ pc' = "inc"
    /\ idx' = 0
    /\ UNCHANGED <<grid, cars, roads, waterCells, currentStep, lastStep, todo, atStepStart, game>>

\* The road loop with the push of line 651 left out
GrowPlaceRoadNoPush ==
    /\ pc = "roads"
    /\ idx < Len(spots)
    /\ grid' = [grid EXCEPT ![spots[idx + 1]] = ROAD]
    /\ idx' = idx + 1
    /\ UNCHANGED <<buildings, cars, roads, waterCells, currentStep, lastStep, pc, spots,
                   todo, atStepStart, game>>

\* growCity, lines 644-652: one iteration of the road loop
GrowPlaceRoad ==
    /\ pc = "roads"
    /\ idx < Len(spots)
    /\ grid' = [grid EXCEPT ![spots[idx + 1]] = ROAD]
    /\ roads' = Append(roads, spots[idx + 1])
    /\ idx' = idx + 1
    /\ UNCHANGED <<buildings, cars, waterCells, currentStep, lastStep, pc, spots,
                   todo, atStepStart, game>>

\* The end of a step with updateCars called once more, after growCity
IncStepUpdatesCars ==
    /\ \/ pc = "inc"
       \/ pc = "roads" /\ idx >= Len(spots)
    /\ cars' \in updateCars(grid, roads, cars)
    /\ currentStep' = currentStep + 1
    /\ pc' = "idle"
    /\ spots' = <<>>
    /\ idx' = 0
    /\ UNCHANGED <<grid, buildings, roads, waterCells, lastStep, todo, atStepStart, game>>

\* simulationStep, line 1177, once growCity has returned or was skipped
IncStep ==
    /\ \/ pc = "inc"
       \/ pc = "roads" /\ idx >= Len(spots)
    /\ currentStep' = currentStep + 1
    /\ pc' = "idle"
    /\ spots' = <<>>
    /\ idx' = 0
    /\ UNCHANGED <<grid, buildings, cars, roads, waterCells, lastStep, todo, atStepStart, game>>

Tick ==
    \/ StepUpdateCars
    \/ GrowCollect
    \/ GrowPlaceBuilding
    \/ GrowMature
    \/ GrowPlaceRoad
    \/ IncStep

\* ------------------------------------------------------- generateTerrain
Range(f) == {f[k] : k \in DOMAIN f}

\* dist_x(5, GRID_WIDTH - 5) and dist_y(5, GRID_HEIGHT - 5)
StartCells ==
    (TerrainMargin..(GRID_WIDTH - TerrainMargin)) \X
    (TerrainMargin..(GRID_HEIGHT - TerrainMargin))

\* gen() returns an unsigned word; only that its modulus is a multiple of 4 matters
UWord == 2 ^ 16

\* The nudge with the sum taken modulo the 8 entries of the offset table
NudgeDirModEight(dir, r) ==
    LET delta == (r - 1) % UWord
        sum == (dir + delta) % UWord
        d == sum % 8
    IN  IF d < 0 THEN d + 4 ELSE d

\* line 229: dir = (dir + (gen() % 3 - 1)) % 4 with r = gen() % 3, in unsigned
\* arithmetic, then line 230
NudgeDir(dir, r) ==
    LET delta == (r - 1) % UWord
        sum == (dir + delta) % UWord
        d == sum % 4
    IN  IF d < 0 THEN d + 4 ELSE d

\* lines 228-231: the direction after the optional nudge
NudgedDirs(dir) == {dir} \cup {NudgeDir(dir, r) : r \in 0..2}

\* lines 234-243: the 3 x 3 block around (cx, cy), in the order of the loops
Stamp(g, wc, cx, cy) ==
    LET block == [k \in 1..9 |-> <<cx + ((k - 1) \div 3) - 1, cy + ((k - 1) % 3) - 1>>]
        claimed == SelectSeq(block, LAMBDA n : TagIs(g, n[1], n[2], EMPTY))
    IN  <<[c \in Cells |-> IF c \in Range(claimed) THEN WATER ELSE g[c]], wc \o claimed>>

RECURSIVE RiverWalk(_, _, _, _, _, _)
\* lines 226-249 with left iterations to go: the pairs <<grid, waterCells>> it can end in
RiverWalk(g, wc, cx, cy, dir, left) ==
    IF left = 0 THEN {<<g, wc>>}
    ELSE UNION {LET st == Stamp(g, wc, cx, cy)
                    nx == cx + dx(d)
                    ny == cy + dy(d)
                IN  IF ~isValidCell(nx, ny) THEN {st}
                    ELSE RiverWalk(st[1], st[2], nx, ny, d, left - 1) :
                d \in NudgedDirs(dir)}

\* The neighbours pushed taken along the diagonals
PushesDiagonal(c, E) ==
    LET ds == SelectSeq([d \in 1..4 |-> d - 1], LAMBDA d : d \in E)
    IN  [k \in 1..Len(ds) |-> <<c[1] + dx(ds[k] + 4), c[2] + dy(ds[k] + 4)>>]

\* lines 267-272 / 303-308: the neighbours pushed when the draws succeed for d in E
Pushes(c, E) ==
    LET ds == SelectSeq([d \in 1..4 |-> d - 1], LAMBDA d : d \in E)
    IN  [k \in 1..Len(ds) |-> <<c[1] + dx(ds[k]), c[2] + dy(ds[k])>>]

RECURSIVE GrowRegion(_, _, _, _, _)
\* The loops at lines 257-273 (tag WATER) and 292-309 (tag FOREST): the pairs
\* <<grid, cells claimed in order>> they can end in
GrowRegion(g, claimed, queue, size, tag) ==
    IF queue = <<>> \/ size <= 0 THEN {<<g, claimed>>}
    ELSE LET c == Head(queue)
             rest == Tail(queue)
         IN  IF ~TagIs(g, c[1], c[2], EMPTY)
             THEN GrowRegion(g, claimed, rest, size, tag)
             ELSE UNION {GrowRegion([g EXCEPT ![c] = tag], Append(claimed, c),
                                    rest \o Pushes(c, E), size - 1, tag) :
                         E \in SUBSET (0..3)}

\* lines 327-337: the cells a farm claims
FarmCells(g, sx, sy, width, height) ==
    {c \in Cells : /\ c[1] >= sx /\ c[1] < sx + width
                   /\ c[2] >= sy /\ c[2] < sy + height
                   /\ g[c] = EMPTY}

\* Leave the current loop of initializeGrid after its last iteration
LoopStep(nextPc, nextCounts) ==
    IF todo > 1
    THEN /\ todo' = todo - 1
         /\ pc' = pc
    ELSE /\ todo' \in nextCounts
         /\ pc' = nextPc

\* lines 219-249: one water body that is a river
GenRiver ==
    /\ pc = "water"
    /\ \E start \in StartCells, length \in 1..MaxRiverLength, dir \in 0..3 :
         \E out \in RiverWalk(grid, waterCells, start[1], start[2], dir, length) :
            /\ grid' = out[1]
            /\ waterCells' = out[2]
    /\ LoopStep("forest", 1..MaxForests)
    /\ UNCHANGED <<buildings, cars, roads, currentStep, lastStep, spots, idx, atStepStart, game>>

\* lines 250-274: one water body that is a lake
GenLake ==
    /\ pc = "water"
    /\ \E start \in StartCells, size \in 1..MaxLakeSize :
         \E out \in GrowRegion(grid, <<>>, <<start>>, size, WATER) :
            /\ grid' = out[1]
            /\ waterCells' = waterCells \o out[2]
    /\ LoopStep("forest", 1..MaxForests)
    /\ UNCHANGED <<buildings, cars, roads, currentStep, lastStep, spots, idx, atStepStart, game>>

\* lines 281-310: one forest
GenForest ==
    /\ pc = "forest"
    /\ \E start \in StartCells, size \in 1..MaxForestSize :
         \E out \in GrowRegion(grid, <<>>, <<start>>, size, FOREST) :
            /\ grid' = out[1]
            /\ buildings' = [c \in Cells |->
                               IF c \in Range(out[2])
                               THEN [buildings[c] EXCEPT !.type = FOREST]
                               ELSE buildings[c]]
    /\ LoopStep("farm", 1..MaxFarms)
    /\ UNCHANGED <<cars, roads, waterCells, currentStep, lastStep, spots, idx, atStepStart, game>>

\* lines 316-338: one farm
GenFarm ==
    /\ pc = "farm"
    /\ \E start \in StartCells, width \in 1..MaxFarmSide, height \in 1..MaxFarmSide :
         LET claimed == FarmCells(grid, start[1], start[2], width, height)
         IN  /\ grid' = [c \in Cells |-> IF c \in claimed THEN FARM ELSE grid[c]]
             /\ buildings' = [c \in Cells |->
                                IF c \in claimed
                                THEN [buildings[c] EXCEPT !.type = FARM]
                                ELSE buildings[c]]
    /\ LoopStep("mainroads", {0})
    /\ UNCHANGED <<cars, roads, waterCells, currentStep, lastStep, spots, idx, atStepStart, game>>

\* -------------------------------------------------- generateInitialRoads
mainRoadY == GRID_HEIGHT \div 2
mainRoadX == GRID_WIDTH \div 2

\* The horizontal arterial laid across every cell of its row, whatever the cell holds
HorizontalRoadAnyTag(g) == [k \in 1..GRID_WIDTH |-> <<k - 1, mainRoadY>>]

\* The vertical arterial with its loop started at y = 1
VerticalRoadFromOne(g) ==
    SelectSeq([k \in 1..(GRID_HEIGHT - 1) |-> <<mainRoadX, k>>], LAMBDA c : g[c] = EMPTY)

\* lines 345-350, then lines 354-359 on the grid they leave
HorizontalRoad(g) ==
    SelectSeq([k \in 1..GRID_WIDTH |-> <<k - 1, mainRoadY>>], LAMBDA c : g[c] = EMPTY)
VerticalRoad(g) ==
    SelectSeq([k \in 1..GRID_HEIGHT |-> <<mainRoadX, k - 1>>], LAMBDA c : g[c] = EMPTY)

WithRoads(g, cells) == [c \in Cells |-> IF c \in Range(cells) THEN ROAD ELSE g[c]]

GenMainRoads ==
    /\ pc = "mainroads"
    /\ LET h == HorizontalRoad(grid)
           v == VerticalRoad(WithRoads(grid, h))
       IN  /\ grid' = WithRoads(grid, h \o v)
           /\ roads' = roads \o h \o v
    /\ pc' = "branches"
    /\ todo' = INITIAL_ROADS
    /\ UNCHANGED <<buildings, cars, waterCells, currentStep, lastStep, spots, idx,
                   atStepStart, game>>

RECURSIVE BranchCellsAnyTag(_, _, _, _, _)
\* The cells of a branch that stops at the grid boundary only
BranchCellsAnyTag(g, x, y, direction, left) ==
    LET nx == x + dx(direction)
        ny == y + dy(direction)
    IN  IF left > 0 /\ isValidCell(nx, ny)
        THEN <<<<nx, ny>>>> \o BranchCellsAnyTag(g, nx, ny, direction, left - 1)
        ELSE <<>>

RECURSIVE BranchCells(_, _, _, _, _)
\* lines 384-394: the cells a branch claims when it stands on (x, y), in order
BranchCells(g, x, y, direction, left) ==
    LET nx == x + dx(direction)
        ny == y + dy(direction)
    IN  IF left > 0 /\ TagIs(g, nx, ny, EMPTY)
        THEN <<<<nx, ny>>>> \o BranchCells(g, nx, ny, direction, left - 1)
        ELSE <<>>

\* A branch whose cells are put at the front of roads
GenBranchPrepend ==
    /\ pc = "branches"
    /\ todo > 0
    /\ \E start \in IF (INITIAL_ROADS - todo) % 2 = 0
                    THEN {<<x, mainRoadY>> : x \in 0..(GRID_WIDTH - 1)}
                    ELSE {<<mainRoadX, y>> : y \in 0..(GRID_HEIGHT - 1)},
          direction \in 0..3, length \in 1..MaxBranchLength :
         LET claimed == BranchCells(grid, start[1], start[2], direction, length)
         IN  /\ grid' = WithRoads(grid, claimed)
             /\ roads' = claimed \o roads
    /\ todo' = todo - 1
    /\ UNCHANGED <<buildings, cars, waterCells, currentStep, lastStep, pc, spots, idx,
                   atStepStart, game>>

\* lines 367-395: branch number i = INITIAL_ROADS - todo
GenBranch ==
    /\ pc = "branches"
    /\ todo > 0
    /\ \E start \in IF (INITIAL_ROADS - todo) % 2 = 0
                    THEN {<<x, mainRoadY>> : x \in 0..(GRID_WIDTH - 1)}
                    ELSE {<<mainRoadX, y>> : y \in 0..(GRID_HEIGHT - 1)},
          direction \in 0..3, length \in 1..MaxBranchLength :
         LET claimed == BranchCells(grid, start[1], start[2], direction, length)
         IN  /\ grid' = WithRoads(grid, claimed)
             /\ roads' = roads \o claimed
    /\ todo' = todo - 1
    /\ UNCHANGED <<buildings, cars, waterCells, currentStep, lastStep, pc, spots, idx,
                   atStepStart, game>>

RECURSIVE addCars(_, _, _)
\* n calls of addRandomCar
addCars(rds, cs, n) ==
    IF n = 0 \/ Len(rds) = 0 THEN {cs}
    ELSE UNION {addCars(rds, Append(cs, c), n - 1) : c \in addRandomCar(rds)}

\* lines 398-400, after which initializeGrid returns to main
GenCars ==
    /\ pc = "branches"
    /\ todo = 0
    /\ cars' \in addCars(roads, cars, InitialCars)
    /\ pc' = "idle"
    /\ atStepStart' = [grid |-> grid, buildings |-> buildings, cars |-> cars,
                       roads |-> roads]
    /\ UNCHANGED <<grid, buildings, roads, waterCells, currentStep, lastStep, spots, idx,
                   todo, game>>

InitializeGrid ==
    \/ GenRiver
    \/ GenLake
    \/ GenForest
    \/ GenFarm
    \/ GenMainRoads
    \/ GenBranch
    \/ GenCars

\* The state in which initializeGrid (lines 185-193) hands over to generateTerrain,
\* with the number of water bodies drawn (line 209)
Init ==
    /\ grid = [c \in Cells |-> EMPTY]
    /\ buildings = [c \in Cells |-> EmptyBuilding]
    /\ cars = <<>>
    /\ roads = <<>>
    /\ waterCells = <<>>
    /\ currentStep = 0
    /\ lastStep = StepLimit
    /\ pc = "water"
    /\ todo \in 1..MaxWaterBodies
    /\ spots = <<>>
    /\ idx = 0
    /\ game = NoGame
    /\ atStepStart = [grid |-> grid, buildings |-> buildings, cars |-> cars,
                       roads |-> roads]

Next == InitializeGrid \/ Tick

Spec == Init /\ [][Next]_vars

\* initializeGrid alone, up to its return
SpecInit == Init /\ [][InitializeGrid]_vars

\* ----------------------------------------------------------- later ticks
\* The program some time into a run: the step counter stands at a later value, the
\* terrain and the arterial roads are as initializeGrid leaves them, the lots next to
\* the roads are built up except for some, and one car stands on a road cell as
\* addRandomCar or a teleport leaves it.  Every record is one growCity can have
\* produced by that step.

\* growCity has run at steps 0, 3, ..., below step
Invocations(step) == (step + 2) \div 3

LateForestStart == <<mainRoadX, GRID_HEIGHT - 1>>

\* The car addRandomCar puts on the first road cell, heading left
FirstRoadCar(rds) == {k \in addRandomCar(rds) : k.roadIndex = 0 /\ k.direction = 0}

\* The scene at the given step with `free` of the lots empty, every other lot holding
\* a building with a record of recs, and the car any addRandomCar can make (anyCar)
\* or the one on the first road cell
Scene(step, recs, freeCounts, horizon, anyCar) ==
    \E lakeStart \in StartCells, rec \in recs :
      \E lake \in GrowRegion([c \in Cells |-> EMPTY], <<>>, <<lakeStart>>, 1, WATER) :
        \E forest \in GrowRegion(lake[1], <<>>, <<LateForestStart>>, 1, FOREST) :
          LET h == HorizontalRoad(forest[1])
              v == VerticalRoad(WithRoads(forest[1], h))
              g == WithRoads(forest[1], h \o v)
              lots == Range(buildingSpots(g, h \o v))
          IN  \E free \in SUBSET lots :
                /\ Cardinality(free) \in freeCounts
                /\ currentStep = step
                /\ lastStep = step + horizon
                /\ grid = [c \in Cells |-> IF c \in lots \ free THEN rec.type ELSE g[c]]
                /\ buildings =
                     [c \in Cells |->
                        IF c \in lots \ free THEN rec
                        ELSE IF c \in Range(forest[2])
                             THEN [EmptyBuilding EXCEPT !.type = FOREST,
                                                        !.age = Invocations(step)]
                             ELSE EmptyBuilding]
                /\ roads = h \o v
                /\ waterCells = lake[2]
                /\ cars \in {<<c>> : c \in IF anyCar THEN addRandomCar(h \o v)
                                                    ELSE FirstRoadCar(h \o v)}
                /\ pc = "idle"
                /\ todo = 0
                /\ spots = <<>>
                /\ idx = 0
                /\ game = NoGame
                /\ atStepStart = [grid |-> grid, buildings |-> buildings, cars |-> cars,
                       roads |-> roads]

\* Step 60: buildings placed at step 3 are about to reach age 20, two buildings and
\* one road are admitted per invocation
LateRecords ==
    {[type |-> RESIDENTIAL, density |-> 1, age |-> 19, hasTree |-> FALSE],
     [type |-> INDUSTRIAL, density |-> 1, age |-> 19, hasTree |-> FALSE]}

\* Step 180: buildings placed at step 3 are about to reach age 60 (the park, placed
\* at step 63, age 40), one lot is left
OldRecords ==
    {[type |-> RESIDENTIAL, density |-> 2, age |-> 59, hasTree |-> FALSE],
     [type |-> COMMERCIAL, density |-> 3, age |-> 59, hasTree |-> TRUE],
     [type |-> PARK, density |-> 1, age |-> 39, hasTree |-> FALSE]}

LateInit ==
    \/ Scene(60, LateRecords, 1..2, StepLimit, FALSE)
    \/ Scene(180, OldRecords, {1}, StepLimit, FALSE)

\* Step 30: buildings placed at step 3 have age 9; the car is anywhere
CarsRecords ==
    {[type |-> RESIDENTIAL, density |-> 1, age |-> 9, hasTree |-> FALSE]}

CarsInit == Scene(30, CarsRecords, 1..2, LongStepLimit, TRUE)

\* Step 10, a multiple of 10 at which growCity is not due, and step 30, at which it
\* is: buildings placed at step 0 have age 4 and age 10
TenthRecords ==
    {[type |-> RESIDENTIAL, density |-> 1, age |-> 4, hasTree |-> FALSE]}
ThirtiethRecords ==
    {[type |-> RESIDENTIAL, density |-> 1, age |-> 10, hasTree |-> FALSE]}

TenthInit ==
    \/ Scene(10, TenthRecords, 1..2, StepLimit, FALSE)
    \/ Scene(30, ThirtiethRecords, 1..2, StepLimit, FALSE)

\* The program at step 0 with no road: water lies on every cell of the two arterial
\* lines (a lake grown from the centre), a forest and a farm were generated next to
\* it, and the branches found no Empty cell, so roads is empty and no car was added
NoRoadsScene ==
    LET lines == {c \in Cells : c[1] = mainRoadX \/ c[2] = mainRoadY}
        g0 == [c \in Cells |-> IF c \in lines THEN WATER ELSE EMPTY]
        scan == [k \in 1..(GRID_WIDTH * GRID_HEIGHT) |-> ScanCell(k)]
    IN  \E forestStart \in StartCells, farmStart \in StartCells :
          \E forest \in GrowRegion(g0, <<>>, <<forestStart>>, 1, FOREST) :
            LET farm == FarmCells(forest[1], farmStart[1], farmStart[2], 1, 1)
            IN  /\ grid = [c \in Cells |-> IF c \in farm THEN FARM ELSE forest[1][c]]
                /\ buildings =
                     [c \in Cells |->
                        IF c \in farm THEN [EmptyBuilding EXCEPT !.type = FARM]
                        ELSE IF c \in Range(forest[2])
                             THEN [EmptyBuilding EXCEPT !.type = FOREST]
                             ELSE EmptyBuilding]
                /\ HorizontalRoad(grid) \o VerticalRoad(grid) = <<>>
                /\ roads = <<>>
                /\ waterCells = SelectSeq(scan, LAMBDA c : c \in lines)
                /\ cars = <<>>
                /\ currentStep = 0
                /\ lastStep = LongStepLimit
                /\ pc = "idle"
                /\ todo = 0
                /\ spots = <<>>
                /\ idx = 0
                /\ game = NoGame
                /\ atStepStart = [grid |-> grid, buildings |-> buildings, cars |-> cars,
                                  roads |-> roads]

\* The steps from 0 on without a road, and the steps from 30 on with roads
SparseInit ==
    \/ NoRoadsScene
    \/ Scene(30, ThirtiethRecords, 1..2, StepLimit, FALSE)

SpecSparse == SparseInit /\ [][Tick]_vars

\* The scene at step 30 with SpawnSceneCars cars: as Scene, with the cars
\* generateInitialRoads placed
SpawnInit ==
    \E lakeStart \in StartCells, rec \in ThirtiethRecords :
      \E lake \in GrowRegion([c \in Cells |-> EMPTY], <<>>, <<lakeStart>>, 1, WATER) :
        \E forest \in GrowRegion(lake[1], <<>>, <<LateForestStart>>, 1, FOREST) :
          LET h == HorizontalRoad(forest[1])
              v == VerticalRoad(WithRoads(forest[1], h))
              g == WithRoads(forest[1], h \o v)
              lots == Range(buildingSpots(g, h \o v))
          IN  \E free \in SUBSET lots :
                /\ Cardinality(free) \in 1..2
                /\ currentStep = 30
                /\ lastStep = 30 + StepLimit + 1
                /\ grid = [c \in Cells |-> IF c \in lots \ free THEN rec.type ELSE g[c]]
                /\ buildings =
                     [c \in Cells |->
                        IF c \in lots \ free THEN rec
                        ELSE IF c \in Range(forest[2])
                             THEN [EmptyBuilding EXCEPT !.type = FOREST,
                                                        !.age = Invocations(30)]
                             ELSE EmptyBuilding]
                /\ roads = h \o v
                /\ waterCells = lake[2]
                /\ cars \in addCars(h \o v, <<>>, SpawnSceneCars)
                /\ pc = "idle"
                /\ todo = 0
                /\ spots = <<>>
                /\ idx = 0
                /\ game = NoGame
                /\ atStepStart = [grid |-> grid, buildings |-> buildings, cars |-> cars,
                                  roads |-> roads]

SpecSpawn == SpawnInit /\ [][Tick]_vars

\* Step 120, at which growCity admits three buildings and two roads: the buildings
\* placed at step 3 have age 39, and most lots are still Empty
ExtendRecords ==
    {[type |-> COMMERCIAL, density |-> 2, age |-> 39, hasTree |-> FALSE]}

ExtendInit == Scene(120, ExtendRecords, 3..4, 1, FALSE)

SpecExtend == ExtendInit /\ [][Tick]_vars

\* Step 30, at which growCity runs and extends the roads: one tick with the car
\* anywhere, or the ticks from 30 on with no car and a spawn ahead
TrafficInit ==
    \/ Scene(30, CarsRecords, 1..2, 1, TRUE)
    \/ SpawnInit

SpecTraffic == TrafficInit /\ [][Tick]_vars

SpecLate == LateInit /\ [][Tick]_vars

SpecTenth == TenthInit /\ [][Tick]_vars

SpecCars == CarsInit /\ [][Tick]_vars

\* ------------------------------------------- a single lake, step by step
\* The lake branch of generateTerrain (lines 250-274) run on its own on the grid
\* initializeGrid creates, one iteration of its while loop per step.  The locals of
\* the loop are kept in spots (queue), todo (size) and idx (the budget drawn at
\* line 255).
LakeInit ==
    /\ grid = [c \in Cells |-> EMPTY]
    /\ buildings = [c \in Cells |-> EmptyBuilding]
    /\ cars = <<>>
    /\ roads = <<>>
    /\ waterCells = <<>>
    /\ currentStep = 0
    /\ lastStep = 0
    /\ pc = "lake"
    /\ \E start \in StartCells, size \in 1..LakeBudget :
         /\ spots = <<start>>
         /\ todo = size
         /\ idx = size
    /\ game = NoGame
    /\ atStepStart = [grid |-> grid, buildings |-> buildings, cars |-> cars,
                       roads |-> roads]

\* One iteration of the lake loop that puts a rejected cell back on the queue
LakeStepRequeue ==
    /\ pc = "lake"
    /\ spots # <<>>
    /\ todo > 0
    /\ LET c == Head(spots)
       IN  IF ~isValidCell(c[1], c[2]) \/ grid[c] # EMPTY
           THEN /\ spots' = Append(Tail(spots), c)
                /\ UNCHANGED <<grid, waterCells, todo>>
           ELSE /\ grid' = [grid EXCEPT ![c] = WATER]
                /\ waterCells' = Append(waterCells, c)
                /\ todo' = todo - 1
                /\ \E E \in SUBSET (0..3) : spots' = Tail(spots) \o Pushes(c, E)
    /\ UNCHANGED <<buildings, cars, roads, currentStep, lastStep, pc, idx, atStepStart, game>>

\* lines 257-273: one iteration of the loop, with E the directions whose draw at
\* line 269 succeeds
LakeStep ==
    /\ pc = "lake"
    /\ spots # <<>>
    /\ todo > 0
    /\ LET c == Head(spots)
       IN  IF ~isValidCell(c[1], c[2]) \/ grid[c] # EMPTY
           THEN /\ spots' = Tail(spots)
                /\ UNCHANGED <<grid, waterCells, todo>>
           ELSE /\ grid' = [grid EXCEPT ![c] = WATER]
                /\ waterCells' = Append(waterCells, c)
                /\ todo' = todo - 1
                /\ \E E \in SUBSET (0..3) : spots' = Tail(spots) \o Pushes(c, E)
    /\ UNCHANGED <<buildings, cars, roads, currentStep, lastStep, pc, idx, atStepStart, game>>

SpecLake == LakeInit /\ [][LakeStep]_vars

\* ------------------------------- the loops of generateTerrain, step by step
\* The river branch (lines 219-249) run on its own, one iteration of its for loop per
\* step: spots holds the current position and the direction, todo the iterations
\* left, idx the length drawn at line 221.
RiverInit ==
    /\ grid = [c \in Cells |-> EMPTY]
    /\ buildings = [c \in Cells |-> EmptyBuilding]
    /\ cars = <<>>
    /\ roads = <<>>
    /\ waterCells = <<>>
    /\ currentStep = 0
    /\ lastStep = 0
    /\ pc = "river"
    /\ \E start \in StartCells, length \in 1..RiverLength, dir \in 0..3 :
         /\ spots = <<start, <<dir, dir>>>>
         /\ todo = length
         /\ idx = length
    /\ game = NoGame
    /\ atStepStart = [grid |-> grid, buildings |-> buildings, cars |-> cars,
                       roads |-> roads]

\* lines 226-249: one iteration; the loop is left at the break of line 248 or after
\* the last iteration
RiverStep ==
    /\ pc = "river"
    /\ todo > 0
    /\ \E d \in NudgedDirs(spots[2][1]) :
         LET cur == spots[1]
             st == Stamp(grid, waterCells, cur[1], cur[2])
             nx == cur[1] + dx(d)
             ny == cur[2] + dy(d)
         IN  /\ grid' = st[1]
             /\ waterCells' = st[2]
             /\ spots' = <<<<nx, ny>>, <<d, d>>>>
             /\ todo' = todo - 1
             /\ pc' = IF ~isValidCell(nx, ny) \/ todo = 1 THEN "done" ELSE "river"
    /\ UNCHANGED <<buildings, cars, roads, currentStep, lastStep, idx, atStepStart, game>>

\* One forest (lines 281-310) on a grid that holds a water cell, one iteration of
\* its while loop per step: spots is the queue, todo the size, idx the budget
ForestInit ==
    /\ \E lakeStart \in StartCells :
         \E lake \in GrowRegion([c \in Cells |-> EMPTY], <<>>, <<lakeStart>>, 1, WATER) :
            /\ grid = lake[1]
            /\ waterCells = lake[2]
    /\ buildings = [c \in Cells |-> EmptyBuilding]
    /\ cars = <<>>
    /\ roads = <<>>
    /\ currentStep = 0
    /\ lastStep = 0
    /\ pc = "forestloop"
    /\ \E start \in StartCells, size \in 1..ForestBudget :
         /\ spots = <<start>>
         /\ todo = size
         /\ idx = size
    /\ game = NoGame
    /\ atStepStart = [grid |-> grid, buildings |-> buildings, cars |-> cars,
                       roads |-> roads]

\* lines 292-309: one iteration of the loop
ForestStep ==
    /\ pc = "forestloop"
    /\ spots # <<>>
    /\ todo > 0
    /\ LET c == Head(spots)
       IN  IF ~isValidCell(c[1], c[2]) \/ grid[c] # EMPTY
           THEN /\ spots' = Tail(spots)
                /\ UNCHANGED <<grid, buildings, todo>>
           ELSE /\ grid' = [grid EXCEPT ![c] = FOREST]
                /\ buildings' = [buildings EXCEPT ![c].type = FOREST]
                /\ todo' = todo - 1
                /\ \E E \in SUBSET (0..3) : spots' = Tail(spots) \o Pushes(c, E)
    /\ UNCHANGED <<cars, roads, waterCells, currentStep, lastStep, pc, idx, atStepStart, game>>

TerrainInit == RiverInit \/ LakeInit \/ ForestInit

TerrainStep == RiverStep \/ LakeStep \/ ForestStep

\* Each loop runs on its own thread of control to its end: a step that is possible
\* is taken
SpecTerrain ==
    /\ TerrainInit
    /\ [][TerrainStep]_vars
    /\ WF_vars(TerrainStep)

\* ------------------------------------- one placement, for every roll
\* growCity inside its placement loop (lines 533-579) with one lot left to fill:
\* the arterial roads cross at the centre, the lot is the corner (0, 0), and each
\* other corner is Empty or holds water, forest, a building or, once parks are
\* placed, a park.  pc, spots and idx are as in GrowPlaceBuilding; todo holds the
\* roll dist_type(0, 100) has drawn at line 540.
TypeLot == <<0, 0>>
TypeCorners == {<<0, GRID_HEIGHT - 1>>, <<GRID_WIDTH - 1, 0>>,
                <<GRID_WIDTH - 1, GRID_HEIGHT - 1>>}
\* growCity runs at the multiples of 3: the last one up to step 50 and one after
TypeSteps == {48, 54}
TypeTags(step) ==
    {EMPTY, WATER, FOREST, INDUSTRIAL} \cup (IF step > 51 THEN {PARK} ELSE {})

\* The record of a corner with this tag at this step: a building placed at step 3,
\* a park placed at step 51, a forest generated at initialization
TypeRecord(tag, step) ==
    IF tag \in {EMPTY, WATER} THEN EmptyBuilding
    ELSE IF tag = FOREST
         THEN [EmptyBuilding EXCEPT !.type = FOREST, !.age = Invocations(step)]
         ELSE [type |-> tag, density |-> 1,
               age |-> IF tag = PARK THEN 1 ELSE Invocations(step) - 1,
               hasTree |-> FALSE]

TypeInit ==
    \E step \in TypeSteps, roll \in 0..100 :
      \E corner \in [TypeCorners -> TypeTags(step)] :
        LET h == HorizontalRoad([c \in Cells |-> EMPTY])
            v == VerticalRoad(WithRoads([c \in Cells |-> EMPTY], h))
            scan == [k \in 1..(GRID_WIDTH * GRID_HEIGHT) |-> ScanCell(k)]
        IN  /\ grid = [c \in Cells |-> IF c \in TypeCorners THEN corner[c]
                                       ELSE IF c = TypeLot THEN EMPTY ELSE ROAD]
            /\ buildings = [c \in Cells |-> IF c \in TypeCorners
                                            THEN TypeRecord(corner[c], step)
                                            ELSE EmptyBuilding]
            /\ roads = h \o v
            /\ waterCells = SelectSeq(scan, LAMBDA c : c \in TypeCorners /\ corner[c] = WATER)
            /\ cars \in {<<c>> : c \in FirstRoadCar(h \o v)}
            /\ currentStep = step
            /\ lastStep = step + 1
            /\ pc = "build"
            /\ spots = <<TypeLot>>
            /\ idx = 0
            /\ todo = roll
            /\ game = NoGame
            /\ atStepStart = [grid |-> grid, buildings |-> buildings, cars |-> cars,
                              roads |-> roads]

\* lines 536-578: the iteration of the placement loop for the roll drawn
PlaceRolled ==
    /\ pc = "build"
    /\ idx < Len(spots)
    /\ \E treeRoll \in TreeRolls :
         LET c == spots[idx + 1]
             type == BuildingType(grid, c[1], c[2], todo, currentStep)
         IN  /\ grid' = [grid EXCEPT ![c] = type]
             /\ buildings' = [buildings EXCEPT ![c] = PlacedRecord(@, type, treeRoll)]
    /\ idx' = idx + 1
    /\ UNCHANGED <<cars, roads, waterCells, currentStep, lastStep, pc, spots, todo, atStepStart, game>>

SpecType == TypeInit /\ [][PlaceRolled]_vars

\* ------------------------------------------------------ the main loop
\* main, lines 1275-1307, around simulationStep.  One iteration tests the loop
\* condition, polls the events, calls simulationStep when SIMULATION_DELAY has passed
\* since the last call, and draws a frame.  pc is "loop" at the loop condition,
\* "idle" from line 1288 to line 1296 while no simulationStep is under way, and
\* "exit" once the loop is left.  lastStep stands for the timer of lines 1289-1290:
\* the call is due in this iteration exactly if currentStep < lastStep.  todo counts
\* the frames drawn; the window is closed after FrameLimit frames at the latest.

\* The last steps before MAX_SIMULATION_STEPS: the buildings placed at step 3 have
\* been aged by every invocation of growCity since
CapStart == MAX_SIMULATION_STEPS - 2
CapRecords ==
    {[type |-> RESIDENTIAL, density |-> 3, age |-> Invocations(CapStart) - 1,
      hasTree |-> FALSE]}

\* An iteration in which simulationStep was not due is about to draw its frame, at
\* step 30 or shortly before the last step
MainInit ==
    \/ Scene(30, ThirtiethRecords, 1..2, 0, FALSE)
    \/ Scene(CapStart, CapRecords, {1}, 0, FALSE)

\* The loop entered with the test of the step counter left out of its condition
MainEnterNoCap ==
    /\ pc = "loop"
    /\ todo < FrameLimit
    /\ pc' = "idle"
    /\ lastStep' \in {currentStep, currentStep + 1}
    /\ UNCHANGED <<grid, buildings, cars, roads, waterCells, currentStep, spots, idx, todo,
                   atStepStart, game>>

\* lines 1275-1290: the loop condition holds, the events are polled and the timer is
\* read; simulationStep is due (lastStep' = currentStep + 1) or not
MainEnter ==
    /\ pc = "loop"
    /\ currentStep < MAX_SIMULATION_STEPS
    /\ todo < FrameLimit
    /\ pc' = "idle"
    /\ lastStep' \in {currentStep, currentStep + 1}
    /\ UNCHANGED <<grid, buildings, cars, roads, waterCells, currentStep, spots, idx, todo,
                   atStepStart, game>>

\* lines 1275, 1309-1318: the loop condition fails, because the step counter has
\* reached MAX_SIMULATION_STEPS or because an event of the last iteration set quit
MainExit ==
    /\ pc = "loop"
    /\ \E quit \in BOOLEAN : quit \/ currentStep >= MAX_SIMULATION_STEPS
    /\ pc' = "exit"
    /\ UNCHANGED <<grid, buildings, cars, roads, waterCells, currentStep, lastStep, spots,
                   idx, todo, atStepStart, game>>

\* A frame whose drawing of the cars writes the advanced positions back
DrawFrameMovesCars ==
    /\ pc = "idle"
    /\ currentStep >= lastStep
    /\ pc' = "loop"
    /\ todo' = todo + 1
    /\ cars' = [i \in 1..Len(cars) |-> Moved(cars[i], cars[i].direction)]
    /\ UNCHANGED <<grid, buildings, roads, waterCells, currentStep, lastStep, spots,
                   idx, atStepStart, game>>

\* lines 1292-1303: the frame of this iteration is drawn and presented, after
\* simulationStep has returned or was not due; then the loop condition is next.
\* drawGrid (lines 1181-1220) and the functions it calls read the grid, the records,
\* the roads, the water cells and the cars and write none of them.
DrawFrame ==
    /\ pc = "idle"
    /\ currentStep >= lastStep
    /\ pc' = "loop"
    /\ todo' = todo + 1
    /\ UNCHANGED <<grid, buildings, cars, roads, waterCells, currentStep, lastStep, spots,
                   idx, atStepStart, game>>

MainLoop == MainEnter \/ MainExit \/ Tick \/ DrawFrame

\* The program is one thread of control that runs on while it can
SpecMain == MainInit /\ [][MainLoop]_vars /\ WF_vars(MainLoop)

\* ------------------------------------ a lot between two buildings
\* On the 3 x 3 grid every cell with more than two neighbours lies on an arterial
\* line, so no Empty cell has a Road cell and two buildings next to it.  The end of
\* growCity (lines 581-653) is therefore also followed on a grid of BlockWidth x
\* BlockHeight cells, at step 120, from the state the placement loop leaves:
\*
\*      y = 0    building   Empty     Forest    lot
\*      y = 1    Road       Road      Forest    Road
\*      y = 2    lot        lot       Road      Water
\*
\* The forest was grown from (2, 1), the lake from (3, 2); the arterials are row 1
\* and column 2.  The building at (0, 0) was placed at step 3; the placement loop of
\* this invocation has written three of the five entries of buildingSpots, none of
\* them (1, 0).
BlockCells == (0..(BlockWidth - 1)) \X (0..(BlockHeight - 1))

\* isValidCell for a grid of w x h cells
isValidCellIn(w, h, x, y) == x >= 0 /\ x < w /\ y >= 0 /\ y < h

BlockTagIs(g, x, y, type) ==
    isValidCellIn(BlockWidth, BlockHeight, x, y) /\ g[<<x, y>>] = type

BlockScanCell(k) == <<(k - 1) \div BlockHeight, (k - 1) % BlockHeight>>

\* lines 613-635 for one cell (x, y) of the block
BlockRoadSpotsOfCell(g, c) ==
    IF ~IsBuildingTag(g[c]) THEN <<>>
    ELSE SelectSeq([d \in 1..4 |-> <<c[1] + dx(d - 1), c[2] + dy(d - 1)>>],
                   LAMBDA n : /\ BlockTagIs(g, n[1], n[2], EMPTY)
                              /\ \E d2 \in 0..3 :
                                   BlockTagIs(g, n[1] + dx(d2), n[2] + dy(d2), ROAD))

\* roadSpots before the shuffle, on the block
BlockRoadSpots(g) ==
    Concat([k \in 1..(BlockWidth * BlockHeight) |-> BlockRoadSpotsOfCell(g, BlockScanCell(k))],
           BlockWidth * BlockHeight)

BlockForest == {<<2, 0>>, <<2, 1>>}
BlockLake == <<<<3, 2>>>>
BlockArterials == <<<<0, 1>>, <<1, 1>>, <<3, 1>>, <<2, 2>>>>
BlockBuilt == <<0, 0>>
\* The lots the placement loop has drawn from: (1, 2) lies next to two Road cells and
\* is in buildingSpots twice
BlockLots == {<<0, 2>>, <<1, 2>>, <<3, 0>>}
BlockPlacements ==
    {s \in [1..3 -> BlockLots] :
        /\ Cardinality({s[k] : k \in 1..3}) >= 2
        /\ \A i, j \in 1..3 : (s[i] = s[j] /\ i # j) => s[i] = <<1, 2>>}

BlockInit ==
    \E rec \in ExtendRecords, placed \in BlockPlacements, car \in FirstRoadCar(BlockArterials) :
      \E type \in [{placed[k] : k \in 1..3} -> {RESIDENTIAL, INDUSTRIAL}],
         treeRoll \in TreeRolls :
        LET before == [c \in BlockCells |->
                         IF c \in {BlockArterials[k] : k \in 1..Len(BlockArterials)} THEN ROAD
                         ELSE IF c \in BlockForest THEN FOREST
                         ELSE IF c \in {BlockLake[k] : k \in 1..Len(BlockLake)} THEN WATER
                         ELSE IF c = BlockBuilt THEN rec.type
                         ELSE EMPTY]
            records == [c \in BlockCells |->
                         IF c \in BlockForest
                         THEN [EmptyBuilding EXCEPT !.type = FOREST,
                                                    !.age = Invocations(120)]
                         ELSE IF c = BlockBuilt THEN rec
                         ELSE EmptyBuilding]
        IN  /\ grid = [c \in BlockCells |-> IF c \in DOMAIN type THEN type[c] ELSE before[c]]
            /\ buildings = [c \in BlockCells |->
                              IF c \in DOMAIN type
                              THEN PlacedRecord(EmptyBuilding, type[c], treeRoll)
                              ELSE records[c]]
            /\ roads = BlockArterials
            /\ waterCells = BlockLake
            /\ cars = <<car>>
            /\ currentStep = 120
            /\ lastStep = 121
            /\ pc = "build"
            /\ spots = placed
            /\ idx = 3
            /\ todo = 0
            /\ game = NoGame
            /\ atStepStart = [grid |-> before, buildings |-> records, cars |-> cars,
                              roads |-> roads]

\* growCity, lines 581-642, on the block: the maturation pass, then the scan for road
\* spots, their shuffle and the number of new roads
BlockMature ==
    /\ pc = "build"
    /\ idx >= Len(spots)
    /\ \E P \in SUBSET {c \in BlockCells :
                          /\ IsBuildingTag(grid[c])
                          /\ PromoteDue(grid[c], [buildings[c] EXCEPT !.age = @ + 1])},
          T \in SUBSET {c \in BlockCells :
                          /\ IsBuildingTag(grid[c])
                          /\ TreeDue(grid[c], [buildings[c] EXCEPT !.age = @ + 1])} :
         buildings' = [c \in BlockCells |->
                         MatureRecord(grid[c], buildings[c], c \in P, c \in T)]
    /\ IF currentStep % 10 = 0
       THEN LET list == BlockRoadSpots(grid)
                newRoads == Min(maxRoadsPerStep(currentStep), Len(list))
            IN  /\ spots' \in ShuffledFront(list, newRoads)
                /\ pc' = "roads"
       ELSE /\ spots' = <<>>
            /\ pc' = "inc"
    /\ idx' = 0
    /\ UNCHANGED <<grid, cars, roads, waterCells, currentStep, lastStep, todo, atStepStart, game>>

BlockNext == BlockMature \/ GrowPlaceRoad \/ IncStep

SpecBlock == BlockInit /\ [][BlockNext]_vars

\* ================================================================ Hot/Cold
\* The number-guessing game of src/hotcold/hotcold.c, a program of its own: game is
\* its GameState (messages[0] is the field message; messages[1..2], the colours and
\* the controller handle are written but never read by the game logic and are left
\* out), pc is "game" while main's loop runs and "exit" once it has been left.  The
\* variables of the city simulator stay as they are.
MAX_ATTEMPTS == 8
\* the numbers are 1..100, the guess starts at 50
MaxNumber == 100
StartGuess == 50

\* rand() % 100 + 1 (line 31): both ends of the range, the start guess and the number
\* next to it
Targets == {1, StartGuess, StartGuess + 1, MaxNumber}

city == <<grid, buildings, cars, roads, waterCells, currentStep, lastStep, spots, idx,
          todo, atStepStart>>

\* init_game, lines 30-48, with the number rand() gives
init_game(target) ==
    [target |-> target, current_guess |-> StartGuess, last_guess |-> -1,
     attempts |-> 0, game_over |-> FALSE, current_screen |-> "WELCOME_SCREEN",
     message |-> "Welcome to Hot/Cold!"]

\* make_guess with the test of the attempts put before the test of the guess
make_guessLossFirst(g) ==
    LET counted == [g EXCEPT !.attempts = g.attempts + 1, !.last_guess = g.current_guess]
    IN  IF counted.attempts >= MAX_ATTEMPTS
        THEN [counted EXCEPT !.message = "Game Over!", !.game_over = TRUE]
        ELSE IF g.current_guess = g.target
        THEN [counted EXCEPT !.message = "You won", !.game_over = TRUE]
        ELSE [counted EXCEPT !.message = IF g.current_guess < g.target
                                         THEN "Higher..." ELSE "Lower..."]

\* make_guess, lines 74-93
make_guess(g) ==
    LET counted == [g EXCEPT !.attempts = g.attempts + 1, !.last_guess = g.current_guess]
    IN  IF g.current_guess = g.target
        THEN [counted EXCEPT !.message = "You won", !.game_over = TRUE]
        ELSE IF counted.attempts >= MAX_ATTEMPTS
        THEN [counted EXCEPT !.message = "Game Over!", !.game_over = TRUE]
        ELSE [counted EXCEPT !.message = IF g.current_guess < g.target
                                         THEN "Higher..." ELSE "Lower..."]

\* lines 330-334: on the welcome screen any key or button starts the game
StartGame(g) == [g EXCEPT !.current_screen = "GAME_SCREEN", !.message = ""]

HotColdInit ==
    /\ grid = [c \in Cells |-> EMPTY]
    /\ buildings = [c \in Cells |-> EmptyBuilding]
    /\ cars = <<>>
    /\ roads = <<>>
    /\ waterCells = <<>>
    /\ currentStep = 0
    /\ lastStep = 0
    /\ spots = <<>>
    /\ idx = 0
    /\ todo = 0
    /\ atStepStart = [grid |-> grid, buildings |-> buildings, cars |-> cars,
                      roads |-> roads]
    /\ pc = "game"
    /\ \E target \in Targets : game = init_game(target)

\* The Up key with the test of game_over left out
PressUpWhenOver ==
    /\ pc = "game"
    /\ game' = IF game.current_screen = "WELCOME_SCREEN" THEN StartGame(game)
               ELSE [game EXCEPT !.current_guess = IF @ < MaxNumber THEN @ + 1
                                                   ELSE MaxNumber]
    /\ UNCHANGED <<pc, city>>

\* SDLK_UP or SDL_CONTROLLER_BUTTON_DPAD_UP through the handler of lines 327-366
PressUp ==
    /\ pc = "game"
    /\ game' = IF game.current_screen = "WELCOME_SCREEN" THEN StartGame(game)
               ELSE IF ~game.game_over
               THEN [game EXCEPT !.current_guess = IF @ < MaxNumber THEN @ + 1
                                                   ELSE MaxNumber]
               ELSE game
    /\ UNCHANGED <<pc, city>>

\* SDLK_DOWN or SDL_CONTROLLER_BUTTON_DPAD_DOWN
PressDown ==
    /\ pc = "game"
    /\ game' = IF game.current_screen = "WELCOME_SCREEN" THEN StartGame(game)
               ELSE IF ~game.game_over
               THEN [game EXCEPT !.current_guess = IF @ > 1 THEN @ - 1 ELSE 1]
               ELSE game
    /\ UNCHANGED <<pc, city>>

\* SDLK_RETURN or SDL_CONTROLLER_BUTTON_A: starts the game, confirms the guess, or
\* (lines 367-370) starts a new round
PressEnter ==
    /\ pc = "game"
    /\ \E target \in Targets :
         game' = IF game.current_screen = "WELCOME_SCREEN" THEN StartGame(game)
                 ELSE IF ~game.game_over THEN make_guess(game)
                 ELSE init_game(target)
    /\ UNCHANGED <<pc, city>>

\* Any other key or button
PressOther ==
    /\ pc = "game"
    /\ game' = IF game.current_screen = "WELCOME_SCREEN" THEN StartGame(game) ELSE game
    /\ UNCHANGED <<pc, city>>

\* SDL_QUIT, lines 328-329: the loop is left
QuitGame ==
    /\ pc = "game"
    /\ pc' = "exit"
    /\ UNCHANGED <<game, city>>

HotColdNext == PressUp \/ PressDown \/ PressEnter \/ PressOther \/ QuitGame

SpecHotCold == HotColdInit /\ [][HotColdNext]_vars

\* ================================================================ claims
\* The states between two calls of simulationStep: initializeGrid has returned and
\* no step is under way
BetweenSteps == pc = "idle"

\* The cells that were Empty when the step under way (or just finished) began and are
\* not Empty now
NewlyTagged == {c \in Cells : atStepStart.grid[c] = EMPTY /\ grid[c] # EMPTY}

\* C1: after initialization and after every tick, a coordinate is an entry of the
\* road sequence if and only if its grid tag is Road.
C1_RoadsMatchGrid ==
    BetweenSteps =>
        /\ \A k \in 1..Len(roads) : roads[k] \in Cells /\ grid[roads[k]] = ROAD
        /\ \A c \in Cells : grid[c] = ROAD => \E k \in 1..Len(roads) : roads[k] = c

\* A tick has extended the road network: a cell that was Empty is now a Road cell
C1_Witness ==
    /\ BetweenSteps
    /\ currentStep > 0
    /\ \E c \in NewlyTagged : grid[c] = ROAD
    /\ Len(roads) > 1

\* C2: a cell whose grid tag is non-Empty at the end of initialization or of a tick has
\* the same tag at the end of the next tick (hence of every later one).
C2_NoRetagging ==
    BetweenSteps => \A c \in Cells : atStepStart.grid[c] # EMPTY => grid[c] = atStepStart.grid[c]

\* The Growth Engine has placed a building and laid a road in a tick that began with
\* a building, a Road and a Water cell on the grid
C2_Witness ==
    /\ BetweenSteps
    /\ \E c \in NewlyTagged : grid[c] = ROAD
    /\ \E c \in NewlyTagged : grid[c] \in {RESIDENTIAL, COMMERCIAL, INDUSTRIAL, PARK}
    /\ \E c \in Cells : atStepStart.grid[c] \in {RESIDENTIAL, INDUSTRIAL}
    /\ \E c \in Cells : atStepStart.grid[c] = WATER
    /\ \E c \in Cells : atStepStart.grid[c] = ROAD

\* C3: after initialization and after every tick, the building record of an Empty, Road
\* or Water cell has type Empty, and the record of any other cell has the cell's tag.
C3_RecordsMatchGrid ==
    BetweenSteps =>
        \A c \in Cells :
            buildings[c].type = IF grid[c] \in {EMPTY, ROAD, WATER} THEN EMPTY ELSE grid[c]

\* After a tick in which a building was placed and a road laid, on a grid with a
\* Forest or Farm cell and a Water cell
C3_Witness ==
    /\ BetweenSteps
    /\ currentStep > 0
    /\ \E c \in NewlyTagged : grid[c] \in {RESIDENTIAL, COMMERCIAL, INDUSTRIAL}
    /\ \E c \in NewlyTagged : grid[c] = ROAD
    /\ \E c \in Cells : grid[c] \in {FOREST, FARM}
    /\ \E c \in Cells : grid[c] = WATER

\* The placement loop of growCity has finished and the maturation pass has not begun
PlacementDone == pc = "build" /\ idx = Len(spots)

\* The Empty cells 4-adjacent to a Road cell when the step under way began
LotsAtStepStart ==
    {c \in Cells : /\ atStepStart.grid[c] = EMPTY
                   /\ \E d \in 0..3 :
                        LET n == <<c[1] + dx(d), c[2] + dy(d)>>
                        IN  n \in Cells /\ atStepStart.grid[n] = ROAD}

\* C4: a Growth Engine invocation at step s turns exactly min(1 + floor(s / 50), c)
\* Empty cells into buildings, c being the number of Empty cells 4-adjacent to a Road
\* cell when the invocation began.
C4_ExactGrowthCount ==
    PlacementDone =>
        Cardinality(NewlyTagged) = Min(1 + currentStep \div 50, Cardinality(LotsAtStepStart))

\* C5: when the Growth Engine writes a building type into a cell, the cell is in
\* bounds, Empty and 4-adjacent to a Road cell (so no cell is assigned a type twice).
C5_WriteOnEmptyLot ==
    (pc = "build" /\ idx < Len(spots)) =>
        LET c == spots[idx + 1]
        IN  /\ c \in Cells
            /\ grid[c] = EMPTY
            /\ \E d \in 0..3 :
                 LET n == <<c[1] + dx(d), c[2] + dy(d)>>
                 IN  n \in Cells /\ grid[n] = ROAD

\* C6: for every cell that holds a building, Forest or Farm, the age in its record is
\* non-decreasing from the end of one tick to the end of the next.
C6_AgeNonDecreasing ==
    BetweenSteps =>
        \A c \in Cells :
            IsBuildingTag(atStepStart.grid[c]) =>
                buildings[c].age >= atStepStart.buildings[c].age

\* A tick has aged a building and a Forest cell and promoted a building, and has
\* placed a new building as well
C6_Witness ==
    /\ BetweenSteps
    /\ \E c \in Cells : /\ atStepStart.grid[c] \in {RESIDENTIAL, COMMERCIAL, INDUSTRIAL}
                        /\ buildings[c].age > atStepStart.buildings[c].age
                        /\ buildings[c].density > atStepStart.buildings[c].density
    /\ \E c \in Cells : /\ atStepStart.grid[c] = FOREST
                        /\ buildings[c].age > atStepStart.buildings[c].age
    /\ \E c \in NewlyTagged : buildings[c].age = 1

\* C7: the density in a cell's record never decreases from one tick to the next and
\* never exceeds 3.
C7_DensityMonotoneBounded ==
    /\ \A c \in Cells : buildings[c].density <= 3
    /\ BetweenSteps =>
         \A c \in Cells : buildings[c].density >= atStepStart.buildings[c].density

\* A tick has promoted a building from density 2 to density 3
C7_Witness ==
    /\ BetweenSteps
    /\ \E c \in Cells : /\ atStepStart.buildings[c].density = 2
                        /\ buildings[c].density = 3
                        /\ buildings[c].age = 60

\* The cars as updateCars found them at the start of the step under way, each with
\* its value after the call
CarsOfStep == 1..Len(atStepStart.cars)

\* The car stood at an integer coordinate of a Road cell and the cell next to it in
\* its direction of travel was Water
FacedWater(k) ==
    /\ k.x >= 0 /\ k.x % Scale = 0
    /\ k.y >= 0 /\ k.y % Scale = 0
    /\ <<k.x \div Scale, k.y \div Scale>> \in Cells
    /\ atStepStart.grid[<<k.x \div Scale, k.y \div Scale>>] = ROAD
    /\ LET n == <<k.x \div Scale + dx(k.direction), k.y \div Scale + dy(k.direction)>>
       IN  n \in Cells /\ atStepStart.grid[n] = WATER

\* The non-reverse directions that led from the car's cell to a Road cell
RoadDirections(k) ==
    {d \in 0..3 :
        /\ d # (k.direction + 2) % 4
        /\ LET n == <<k.x \div Scale + dx(d), k.y \div Scale + dy(d)>>
           IN  n \in Cells /\ atStepStart.grid[n] = ROAD}

AtRoadCoordinate(k) ==
    \E r \in 1..Len(roads) : k.x = roads[r][1] * Scale /\ k.y = roads[r][2] * Scale

\* The car switched to a non-reverse direction leading to a Road cell when there was
\* one, and was put on a coordinate of the road sequence when there was none
Rerouted(old, new) ==
    IF RoadDirections(old) # {}
    THEN new.direction \in RoadDirections(old)
    ELSE AtRoadCoordinate(new)

\* The car kept its direction and advanced by its speed
Advanced(old, new) ==
    /\ new.direction = old.direction
    /\ new.x = old.x + dx(old.direction) * old.speed
    /\ new.y = old.y + dy(old.direction) * old.speed

\* C8 as stated: a car that at the start of a tick sits at an integer road coordinate
\* with Water next to it in its direction of travel switches, during that tick, to a
\* non-reverse direction leading to a Road cell or is teleported to a coordinate of
\* the road sequence, for each of the 4 directions of travel.
C8_ReroutedAtOnceAllDirections ==
    pc # "idle" =>
        \A i \in CarsOfStep :
            FacedWater(atStepStart.cars[i]) => Rerouted(atStepStart.cars[i], cars[i])

\* C8 amended: the switch or teleport happens during that tick for the directions of
\* travel 0 (left) and 3 (up); for the directions 1 (down) and 2 (right) the car
\* keeps its direction and advances by its speed inside its cell.
C8_ReroutedAtOnceLeftAndUp ==
    pc # "idle" =>
        \A i \in CarsOfStep :
            LET old == atStepStart.cars[i]
            IN  FacedWater(old) =>
                    IF old.direction \in {0, 3}
                    THEN Rerouted(old, cars[i])
                    ELSE Advanced(old, cars[i])

\* A car travelling left or up stood before Water with a Road cell to its side and
\* switched to it
C8_Witness ==
    /\ pc # "idle"
    /\ \E i \in CarsOfStep :
         LET old == atStepStart.cars[i]
         IN  /\ FacedWater(old)
             /\ old.direction \in {0, 3}
             /\ cars[i].direction \in RoadDirections(old)
             /\ cars[i].direction # old.direction
             /\ ~AtRoadCoordinate(cars[i])

\* C9: after initialization and after every tick, the cell obtained by truncating a
\* car's x and y toward zero is inside the grid and has grid tag Road.
C9_CarsOnRoad ==
    BetweenSteps =>
        \A i \in 1..Len(cars) :
            /\ Trunc(cars[i].x) \in 0..(GRID_WIDTH - 1)
            /\ Trunc(cars[i].y) \in 0..(GRID_HEIGHT - 1)
            /\ grid[<<Trunc(cars[i].x), Trunc(cars[i].y)>>] = ROAD

\* After some ticks a car stands at a negative coordinate, which truncates to cell 0,
\* and a building was placed during the last tick
C9_Witness ==
    /\ BetweenSteps
    /\ NewlyTagged # {}
    /\ \E i \in 1..Len(cars) :
         /\ cars[i].x < 0 \/ cars[i].y < 0
         /\ grid[<<Trunc(cars[i].x), Trunc(cars[i].y)>>] = ROAD

\* The coordinates the program tests: the neighbours, to distance 2, of the cells
ProbeX == (0 - 2)..(GRID_WIDTH + 1)
ProbeY == (0 - 2)..(GRID_HEIGHT + 1)

\* C10: isValidCell(x, y) is true exactly when 0 <= x < W and 0 <= y < H, and false
\* for every coordinate outside that range, whatever the grid holds; the coordinates
\* it accepts are those at which the grid has a cell.
C10_ValidExactlyInRange ==
    \A x \in ProbeX, y \in ProbeY :
        LET inRange == 0 <= x /\ x < GRID_WIDTH /\ 0 <= y /\ y < GRID_HEIGHT
        IN  /\ isValidCell(x, y) <=> inRange
            /\ isValidCell(x, y) <=> <<x, y>> \in DOMAIN grid

\* growCity has collected the lots along a road cell in the last column, testing the
\* cell right of it, in column GRID_WIDTH, on a grid with terrain and roads
C10_Witness ==
    /\ pc = "build"
    /\ \E k \in 1..Len(roads) :
         /\ roads[k][1] = GRID_WIDTH - 1
         /\ ~isValidCell(roads[k][1] + dx(2), roads[k][2] + dy(2))
         /\ \E d \in 0..3 :
              /\ isValidCell(roads[k][1] + dx(d), roads[k][2] + dy(d))
              /\ <<roads[k][1] + dx(d), roads[k][2] + dy(d)>> \in Range(spots)
    /\ \E c \in Cells : grid[c] = WATER

\* C11: every coordinate in the water-cell sequence has grid tag Water in every state
\* from terrain generation on; no step re-tags a Water cell, and once the water bodies
\* are generated nothing appends to or removes from the water-cell sequence.
C11_WaterCellsStayWater ==
    /\ [](\A k \in 1..Len(waterCells) : grid[waterCells[k]] = WATER)
    /\ [][\A c \in Cells : grid[c] = WATER => grid'[c] = WATER]_vars
    /\ [][pc # "water" => waterCells' = waterCells]_vars

\* After a tick that placed a building, a water body of several cells lies across
\* the line of an arterial road, which was laid around it
C11_Witness ==
    /\ BetweenSteps
    /\ currentStep > 0
    /\ NewlyTagged # {}
    /\ Len(waterCells) > 1
    /\ \E k \in 1..Len(waterCells) :
         /\ waterCells[k][2] = mainRoadY
         /\ grid[waterCells[k]] = WATER
         /\ \E r \in 1..Len(roads) : roads[r][2] = mainRoadY

\* Two cells are 4-adjacent
Adjacent4(a, b) ==
    \/ a[1] = b[1] /\ (a[2] - b[2] = 1 \/ b[2] - a[2] = 1)
    \/ a[2] = b[2] /\ (a[1] - b[1] = 1 \/ b[1] - a[1] = 1)

RECURSIVE ReachableIn(_, _)
\* The cells of S that can be reached from the cells of R by 4-adjacent moves in S
ReachableIn(R, S) ==
    LET more == {c \in S \ R : \E r \in R : Adjacent4(r, c)}
    IN  IF more = {} THEN R ELSE ReachableIn(R \cup more, S)

Connected4(S) == S = {} \/ \E c \in S : ReachableIn({c}, S) = S

\* C12: a single lake generated on an all-Empty grid gains exactly one Water cell
\* per claim, is 4-connected at every intermediate point, has at most the drawn
\* budget of cells, and every claimed cell but the seed is 4-adjacent to a cell
\* claimed earlier.
C12_LakeGrowsConnected ==
    pc = "lake" =>
        /\ Len(waterCells) = idx - todo
        /\ Cardinality({c \in Cells : grid[c] = WATER}) = Len(waterCells)
        /\ Range(waterCells) = {c \in Cells : grid[c] = WATER}
        /\ Len(waterCells) <= idx
        /\ Connected4(Range(waterCells))
        /\ \A k \in 2..Len(waterCells) :
              \E j \in 1..(k - 1) : Adjacent4(waterCells[j], waterCells[k])

\* The lake has stopped short of its budget with an empty queue after claiming
\* three cells or more
C12_Witness ==
    /\ pc = "lake"
    /\ spots = <<>>
    /\ todo > 0
    /\ Len(waterCells) >= 3

\* initializeGrid is under way, or has just returned
InInitialization == pc \in {"water", "forest", "farm", "mainroads", "branches"}

NoDuplicates(seq) == \A i, j \in 1..Len(seq) : seq[i] = seq[j] => i = j

\* C13: during initialization every write of a Water, Forest, Farm or Road tag goes
\* to a cell that is Empty at the moment of the write; no cell is claimed twice, so
\* neither the water-cell sequence nor the road sequence names a cell twice.
C13_InitWritesOnEmptyOnly ==
    /\ [][InInitialization =>
            \A c \in Cells :
                grid'[c] # grid[c] =>
                    grid[c] = EMPTY /\ grid'[c] \in {WATER, FOREST, FARM, ROAD}]_vars
    /\ []((InInitialization \/ (BetweenSteps /\ currentStep = 0)) =>
            NoDuplicates(waterCells) /\ NoDuplicates(roads))

\* initializeGrid has returned with water, forest and farm on the grid, an arterial
\* laid around terrain in its line, and a branch road
C13_Witness ==
    /\ BetweenSteps
    /\ currentStep = 0
    /\ \E c \in Cells : grid[c] = WATER
    /\ \E c \in Cells : grid[c] = FOREST
    /\ \E c \in Cells : grid[c] = FARM
    /\ \E c \in Cells : (c[1] = mainRoadX \/ c[2] = mainRoadY) /\ IsBuildingTag(grid[c])
    /\ \E k \in 1..Len(roads) : roads[k][1] # mainRoadX /\ roads[k][2] # mainRoadY

\* The loop under way has ended: the for loop of the river was left, or the
\* condition of the while loop of the lake or forest is false
LoopEnded ==
    \/ pc = "done"
    \/ pc \in {"lake", "forestloop"} /\ (spots = <<>> \/ todo <= 0)

\* What is left to do: the iterations of the river, and for a region five times the
\* size budget plus the length of the queue
Measure ==
    IF pc = "river" THEN todo
    ELSE IF pc \in {"lake", "forestloop"} THEN 5 * todo + Len(spots)
    ELSE 0

\* A pop of a lake or forest loop decrements the budget, or enqueues nothing
BudgetOrQueueShrinks ==
    pc \in {"lake", "forestloop"} =>
        \/ todo' = todo - 1 /\ Len(spots') <= Len(spots) + 3
        \/ todo' = todo /\ Len(spots') = Len(spots) - 1

\* C14: terrain generation terminates for every outcome of the draws: a river runs
\* at most its drawn length, and every iteration of a lake or forest loop either
\* decrements the size budget or enqueues nothing, so each loop ends.
C14_TerrainTerminates ==
    /\ <>LoopEnded
    /\ [](pc = "river" => todo \in 1..idx)
    /\ [](Measure >= 0)
    /\ [][Measure' < Measure]_vars
    /\ [][BudgetOrQueueShrinks]_vars

\* A loop has ended after a pop that was rejected: a lake or forest that ran out
\* of queue with budget left after putting off-grid and claimed cells on it
C14_Witness ==
    /\ pc \in {"lake", "forestloop"}
    /\ spots = <<>>
    /\ todo > 0
    /\ todo < idx - 1

\* An invocation of simulationStep returns
TickEnds == pc \notin {"idle", "branches"} /\ pc' = "idle"

\* growCity has run since the start of the step: every building, Forest and Farm
\* cell is one invocation older
GrowthRan ==
    \A c \in Cells :
        IsBuildingTag(atStepStart.grid[c]) =>
            buildings[c].age = atStepStart.buildings[c].age + 1

\* growCity has not run since the start of the step
GrowthSkipped == grid = atStepStart.grid /\ buildings = atStepStart.buildings

\* updateCars has run since the start of the step: every car has advanced by its
\* speed in the direction it now has, or stands on a coordinate of the road sequence
CarsUpdated ==
    /\ Len(cars) >= Len(atStepStart.cars)
    /\ \A i \in CarsOfStep :
         \/ /\ cars[i].x = atStepStart.cars[i].x + dx(cars[i].direction) * cars[i].speed
            /\ cars[i].y = atStepStart.cars[i].y + dy(cars[i].direction) * cars[i].speed
         \/ AtRoadCoordinate(cars[i])

StepReturnsAsSpecified ==
    TickEnds =>
        /\ currentStep' = currentStep + 1
        /\ CarsUpdated
        /\ IF currentStep % 3 = 0 THEN GrowthRan ELSE GrowthSkipped

\* C15: every invocation of the simulation step updates the cars, runs growCity if
\* and only if the step counter at the start of the invocation is a multiple of 3,
\* and then increases the step counter by exactly 1; the counter changes nowhere
\* else.
C15_StepSequence ==
    /\ [][StepReturnsAsSpecified]_vars
    /\ [][currentStep' # currentStep => TickEnds]_vars

\* A step that ran growCity has returned; a building aged and the car moved
C15_Witness ==
    /\ BetweenSteps
    /\ currentStep % 3 = 1
    /\ GrowthRan
    /\ CarsUpdated
    /\ \E c \in Cells : atStepStart.grid[c] \in {RESIDENTIAL, COMMERCIAL, INDUSTRIAL}
    /\ \E i \in CarsOfStep : cars[i] # atStepStart.cars[i]

\* The Empty cells next to a building, Forest or Farm cell and next to a Road cell,
\* on the grid as it was at the start of the step
RoadCandidatesAtStepStart ==
    {c \in Cells :
        /\ atStepStart.grid[c] = EMPTY
        /\ \E d \in 0..3 :
             LET n == <<c[1] + dx(d), c[2] + dy(d)>>
             IN  n \in Cells /\ IsBuildingTag(atStepStart.grid[n])
        /\ \E d \in 0..3 :
             LET n == <<c[1] + dx(d), c[2] + dy(d)>>
             IN  n \in Cells /\ atStepStart.grid[n] = ROAD}

RoadsGrowOnTenthTick ==
    (TickEnds /\ currentStep % 10 = 0 /\ RoadCandidatesAtStepStart # {}) =>
        Len(roads) > Len(atStepStart.roads)

\* C16: road extension is invoked on every tick whose step counter is a multiple of
\* 10, so whenever road candidates exist at such a tick the road sequence grows on
\* that tick.
C16_RoadsEveryTenthTick == [][RoadsGrowOnTenthTick]_vars

\* The grid as the road extension found it: the grid with the roads appended since
\* the start of the step taken out again
GridBeforeNewRoads ==
    [c \in Cells |->
        IF \E k \in (Len(atStepStart.roads) + 1)..Len(roads) : roads[k] = c
        THEN EMPTY ELSE grid[c]]

\* The Empty cells of g next to a building, Forest or Farm cell and next to a Road
RoadCandidates(g) ==
    {c \in Cells :
        /\ g[c] = EMPTY
        /\ \E d \in 0..3 :
             LET n == <<c[1] + dx(d), c[2] + dy(d)>>
             IN  n \in Cells /\ IsBuildingTag(g[n])
        /\ \E d \in 0..3 :
             LET n == <<c[1] + dx(d), c[2] + dy(d)>>
             IN  n \in Cells /\ g[n] = ROAD}

RoadsGrowOnThirtiethTickOnly ==
    TickEnds =>
        IF currentStep % 3 = 0 /\ currentStep % 10 = 0
        THEN RoadCandidates(GridBeforeNewRoads) # {} =>
                Len(roads) > Len(atStepStart.roads)
        ELSE roads = atStepStart.roads

\* C16 amended: road extension is invoked only from growCity, on the ticks whose step
\* counter is a multiple of both 3 and 10; on such a tick the road sequence grows
\* whenever road candidates exist when the extension scans the grid, and on every
\* other tick, the other multiples of 10 included, the road sequence is unchanged.
C16_RoadsEveryThirtiethTick == [][RoadsGrowOnThirtiethTickOnly]_vars

\* The tick of step 30 has returned with a road appended
C16_Witness ==
    /\ BetweenSteps
    /\ currentStep % 30 = 1
    /\ Len(roads) > Len(atStepStart.roads)
    /\ grid[roads[Len(roads)]] = ROAD
    /\ atStepStart.grid[roads[Len(roads)]] = EMPTY

IsPrefix(a, b) == Len(a) <= Len(b) /\ \A k \in 1..Len(a) : a[k] = b[k]

\* C17: the road sequence is append-only: the sequence at any point in time is a
\* prefix of the sequence at any later point; no entry is removed, reordered or
\* overwritten.
C17_RoadsAppendOnly ==
    /\ [][IsPrefix(roads, roads')]_vars
    /\ [](BetweenSteps => IsPrefix(atStepStart.roads, roads))

\* A tick has appended a road to a sequence that holds arterial and branch roads
C17_Witness ==
    /\ BetweenSteps
    /\ currentStep > 0
    /\ Len(atStepStart.roads) >= 3
    /\ Len(roads) > Len(atStepStart.roads)
    /\ \E k \in 1..Len(atStepStart.roads) :
         roads[k][1] # mainRoadX /\ roads[k][2] # mainRoadY

\* The road sequence was empty at the start of the step
NoRoadAtStepStart == atStepStart.roads = <<>>

TickWithoutRoadsChangesNothing ==
    (TickEnds /\ NoRoadAtStepStart) =>
        /\ grid = atStepStart.grid
        /\ buildings = atStepStart.buildings
        /\ roads = atStepStart.roads
        /\ cars = atStepStart.cars

\* C18 as stated: if the road sequence is empty at the start of a tick, the tick
\* leaves the grid, every building record, the road sequence and the car collection
\* unchanged.
C18_NoRoadsNoChange == [][TickWithoutRoadsChangesNothing]_vars

TickWithoutRoadsOnlyAges ==
    (TickEnds /\ NoRoadAtStepStart) =>
        /\ grid = atStepStart.grid
        /\ roads = atStepStart.roads
        /\ cars = atStepStart.cars
        /\ \A c \in Cells :
             buildings[c] =
                IF currentStep % 3 = 0 /\ grid[c] \in {FOREST, FARM}
                THEN [atStepStart.buildings[c] EXCEPT
                        !.age = atStepStart.buildings[c].age + 1]
                ELSE atStepStart.buildings[c]

\* C18 amended: if the road sequence is empty at the start of a tick, the tick leaves
\* the grid, the road sequence and the car collection unchanged and places nothing;
\* the building records are unchanged except that on a tick whose step counter is a
\* multiple of 3 the age of every Forest and Farm cell is incremented by 1.
C18_NoRoadsOnlyAgeing == [][TickWithoutRoadsOnlyAges]_vars

\* A tick that ran growCity has returned with no road on the grid and a Forest
\* cell one invocation older
C18_Witness ==
    /\ BetweenSteps
    /\ roads = <<>>
    /\ NoRoadAtStepStart
    /\ currentStep % 3 = 1
    /\ \E c \in Cells :
         /\ grid[c] = FOREST
         /\ buildings[c].age = atStepStart.buildings[c].age + 1

\* The coordinate is an index of the grid and of the building records
InGrid(c) == 0 <= c[1] /\ c[1] < GRID_WIDTH /\ 0 <= c[2] /\ c[2] < GRID_HEIGHT

\* growCity is in one of its two placement loops; spots is the candidate list, cut
\* to the number admitted, and idx the loop index
Placing == pc \in {"build", "roads"}

\* With an empty candidate list a placement loop touches neither grid nor roads
EmptyListNoAccess ==
    (Placing /\ pc' = pc /\ Len(spots) = 0) => grid' = grid /\ roads' = roads

\* C19: in every reachable state of initialization and of any tick, every index used
\* on the grid or the building records is inside [0,W) x [0,H) (the candidates
\* growCity writes at, and the coordinates kept in the road and water sequences),
\* every index into the road sequence, each car's roadIndex included, is below the
\* sequence length, the loop index stays within the candidate list, and an empty
\* candidate list produces no access.
C19_IndicesInRange ==
    /\ [](\A i \in 1..Len(cars) :
             0 <= cars[i].roadIndex /\ cars[i].roadIndex < Len(roads))
    /\ [](\A k \in 1..Len(roads) : InGrid(roads[k]))
    /\ [](\A k \in 1..Len(waterCells) : InGrid(waterCells[k]))
    /\ [](Placing => idx <= Len(spots) /\ \A k \in 1..Len(spots) : InGrid(spots[k]))
    /\ [](DOMAIN grid = Cells /\ DOMAIN buildings = Cells)
    /\ [][EmptyListNoAccess]_vars

\* growCity has appended a road in the last column or row, and a car carries the
\* last index of the road sequence as it was at the start of the step
C19_Witness ==
    /\ pc = "roads"
    /\ idx = Len(spots)
    /\ idx > 0
    /\ spots[idx][1] = GRID_WIDTH - 1 \/ spots[idx][2] = GRID_HEIGHT - 1
    /\ roads[Len(roads)] = spots[idx]
    /\ \E i \in 1..Len(cars) : cars[i].roadIndex = Len(atStepStart.roads) - 1

Max(a, b) == IF a >= b THEN a ELSE b

\* A tick adds at most one car, and only to fewer cars than a fifth of the roads
SpawnOnlyBelowCap ==
    pc = "idle" =>
        /\ Len(cars') <= Len(cars) + 1
        /\ Len(cars') > Len(cars) => Len(cars) < Len(roads) \div 5

\* C20: the car collection only grows, by at most one car per tick, and a tick
\* spawns a car only when the car count is strictly below floor(roadCount / 5);
\* hence the number of cars is at most the maximum of the number placed at
\* initialization and floor(roadCount / 5).
C20_CarsGrowUnderCap ==
    /\ [][Len(cars') >= Len(cars)]_vars
    /\ [][SpawnOnlyBelowCap]_vars
    /\ [](Len(cars) <= Max(SpawnSceneCars, Len(roads) \div 5))

\* A tick has spawned a car, which brought the number of cars to the cap
C20_Witness ==
    /\ pc # "idle"
    /\ Len(cars) = Len(atStepStart.cars) + 1
    /\ Len(atStepStart.cars) < Len(atStepStart.roads) \div 5
    /\ Len(cars) = Len(roads) \div 5

\* The step counter has reached MAX_SIMULATION_STEPS
CapReached == currentStep >= MAX_SIMULATION_STEPS

\* At the cap nothing of the simulation changes any more, and the loop condition
\* leads out of the loop
NoStepAtCap ==
    CapReached =>
        /\ UNCHANGED <<grid, buildings, cars, roads, waterCells, currentStep>>
        /\ pc' \in {"loop", "exit"}
        /\ pc = "loop" => pc' = "exit"

\* C21: the step counter never exceeds MAX_SIMULATION_STEPS; once it has reached
\* the cap no further simulation step is executed, and the main loop ends.
C21_StepCapped ==
    /\ [](currentStep <= MAX_SIMULATION_STEPS)
    /\ [][NoStepAtCap]_vars
    /\ [](CapReached => <>(pc = "exit"))

\* The loop was left at the cap, which the last simulation step reached
C21_Witness ==
    /\ pc = "exit"
    /\ currentStep = MAX_SIMULATION_STEPS
    /\ atStepStart.cars # cars

\* A frame is drawn and presented
FrameDrawn == pc # "loop" /\ pc' = "loop"

\* The state is the one the last complete call of simulationStep left: the cars
\* are updated, growCity has run as a whole or not at all, and no call is under way
TickComplete ==
    /\ pc = "idle"
    /\ currentStep >= lastStep
    /\ spots = <<>>
    /\ CarsUpdated
    /\ IF (currentStep - 1) % 3 = 0 THEN GrowthRan ELSE GrowthSkipped

\* C22: drawing a frame leaves the grid, the building records, the road sequence,
\* the water-cell sequence, the cars and the step counter unchanged, and no frame is
\* drawn from a state in the middle of a simulation step.
C22_RenderingReadsBetweenTicks ==
    /\ [][FrameDrawn =>
            UNCHANGED <<grid, buildings, roads, waterCells, cars, currentStep>>]_vars
    /\ [][FrameDrawn => TickComplete]_vars

\* A frame was drawn right after a tick that moved the car and placed a building,
\* an earlier frame having been drawn before that tick
C22_Witness ==
    /\ pc = "loop"
    /\ todo >= 2
    /\ currentStep = lastStep
    /\ atStepStart.cars # cars
    /\ NewlyTagged # {}

\* The tags the Growth Engine places, and the tags terrain generation gives a record
PlacedTags == {RESIDENTIAL, COMMERCIAL, INDUSTRIAL, PARK}
TerrainRecordTags == {FOREST, FARM}

\* C23 as stated: after initialization and after every tick, every cell whose grid
\* tag is Residential, Commercial, Industrial, Park, Forest or Farm has a building
\* record with density in {1,2,3}.
C23_DensityOneToThree ==
    BetweenSteps =>
        \A c \in Cells :
            grid[c] \in PlacedTags \cup TerrainRecordTags => buildings[c].density \in 1..3

\* C23 amended: after initialization and after every tick, every Residential,
\* Commercial, Industrial or Park cell has a record with density in {1,2,3}, and
\* every Forest or Farm cell has a record with density 0.
C23_DensityByTag ==
    BetweenSteps =>
        \A c \in Cells :
            /\ grid[c] \in PlacedTags => buildings[c].density \in 1..3
            /\ grid[c] \in TerrainRecordTags => buildings[c].density = 0

\* A tick has placed a building on a grid that holds a Forest and a Farm cell
C23_Witness ==
    /\ BetweenSteps
    /\ currentStep > 0
    /\ \E c \in NewlyTagged : grid[c] \in PlacedTags /\ buildings[c].density = 1
    /\ \E c \in Cells : grid[c] = FOREST
    /\ \E c \in Cells : grid[c] = FARM

\* The cells of row H/2 and of column W/2
ArterialLines == {c \in Cells : c[1] = mainRoadX \/ c[2] = mainRoadY}

\* generateInitialRoads lays the two arterial roads
ArterialsLaid == pc = "mainroads" /\ pc' # "mainroads"

\* Every cell of the two lines that was Empty becomes a Road cell and an entry of
\* the road sequence, every other cell of the lines keeps its tag
LinesFilled ==
    \A c \in ArterialLines :
        IF grid[c] = EMPTY
        THEN grid'[c] = ROAD /\ \E k \in 1..Len(roads') : roads'[k] = c
        ELSE grid'[c] = grid[c]

\* C24: after initialization no cell of row H/2 and no cell of column W/2 is Empty:
\* every such cell that terrain generation left Empty is a Road cell and an entry of
\* the road sequence.
C24_ArterialLinesClaimed ==
    /\ [][ArterialsLaid => LinesFilled]_vars
    /\ [](pc \in {"branches", "idle"} =>
            \A c \in ArterialLines :
                /\ grid[c] \in {WATER, FOREST, FARM, ROAD}
                /\ grid[c] = ROAD => \E k \in 1..Len(roads) : roads[k] = c)

\* initializeGrid has returned with terrain on one arterial line, Road cells on
\* both, and a Road cell off the lines
C24_Witness ==
    /\ pc = "idle"
    /\ \E c \in ArterialLines : grid[c] \in {WATER, FOREST, FARM}
    /\ \E c \in ArterialLines : grid[c] = ROAD /\ c[1] # mainRoadX
    /\ \E c \in ArterialLines : grid[c] = ROAD /\ c[2] # mainRoadY
    /\ \E c \in Cells \ ArterialLines : grid[c] = ROAD

\* A cell other than c within 3 columns and 3 rows of c has one of the tags
NearTag(g, c, tags) ==
    \E n \in Cells :
        /\ n # c
        /\ n[1] - c[1] \in (0 - 3)..3
        /\ n[2] - c[2] \in (0 - 3)..3
        /\ g[n] \in tags

\* The type as the claim gives it, for the roll r at step s on the grid g
TypeAsSpecified(g, c, r, s) ==
    IF r > 95 /\ s > 50 THEN PARK
    ELSE IF \/ r < 60
            \/ r < 80 /\ NearTag(g, c, {WATER})
            \/ r < 75 /\ NearTag(g, c, {PARK, FOREST})
         THEN RESIDENTIAL
         ELSE IF r < 85 THEN COMMERCIAL ELSE INDUSTRIAL

\* The placement of the roll held in todo is done
RolledPlaced == pc = "build" /\ idx = 1 /\ Len(spots) = 1

\* C25: the type given to a newly placed building is Park if r > 95 and s > 50;
\* otherwise Residential if r < 60, or r < 80 with a Water cell in the radius-3
\* square around the cell, or r < 75 with a Park or Forest cell in that square;
\* otherwise Commercial if r < 85; otherwise Industrial.  No Park is placed while
\* the step counter is at most 50, and a roll of 85 or more never gives Residential.
C25_TypeOfRoll ==
    RolledPlaced =>
        LET c == spots[1]
            type == grid[c]
        IN  /\ type = TypeAsSpecified(atStepStart.grid, c, todo, currentStep)
            /\ buildings[c].type = type
            /\ currentStep <= 50 => type # PARK
            /\ todo >= 85 => type # RESIDENTIAL

\* A roll of 75 to 79 was turned into Residential by Water nearby, with no Park or
\* Forest on the grid
C25_Witness ==
    /\ RolledPlaced
    /\ todo \in 75..79
    /\ grid[spots[1]] = RESIDENTIAL
    /\ NearTag(atStepStart.grid, spots[1], {WATER})
    /\ ~NearTag(atStepStart.grid, spots[1], {PARK, FOREST})

\* The entries appended to the road sequence since the start of the step
NewRoadEntries == (Len(atStepStart.roads) + 1)..Len(roads)

\* The road extension is under way or has just ended
InRoadExtension == pc = "roads"

\* One iteration of the loop of the road extension
RoadExtensionStep == pc = "roads" /\ pc' = "roads"

\* A cell is re-tagged only from Empty to Road, and only if it was a candidate when
\* the grid was scanned; nothing else is written
OnlyCandidatesBecomeRoad ==
    RoadExtensionStep =>
        /\ \A c \in Cells :
             grid'[c] # grid[c] =>
                /\ grid[c] = EMPTY
                /\ grid'[c] = ROAD
                /\ c \in RoadCandidates(GridBeforeNewRoads)
        /\ UNCHANGED <<buildings, cars, waterCells, currentStep>>

\* C26: a road-extension invocation at step s appends at most 1 + floor(s / 100)
\* entries to the road sequence; every cell it turns into Road was, when the
\* candidates were scanned, Empty, 4-adjacent to a Road cell and 4-adjacent to a cell
\* that is neither Empty, Road nor Water; with no such cell it changes nothing.
C26_RoadExtensionBounded ==
    /\ [](InRoadExtension =>
            /\ Cardinality(NewRoadEntries) = idx
            /\ idx <= 1 + currentStep \div 100
            /\ \A k \in NewRoadEntries : roads[k] \in RoadCandidates(GridBeforeNewRoads))
    /\ [][OnlyCandidatesBecomeRoad]_vars
    /\ []((InRoadExtension /\ RoadCandidates(GridBeforeNewRoads) = {}) =>
            /\ spots = <<>>
            /\ roads = atStepStart.roads)

\* The road extension of step 120 has turned two cells into Road
C26_Witness ==
    /\ InRoadExtension
    /\ currentStep = 120
    /\ idx = 2
    /\ Cardinality({roads[k] : k \in NewRoadEntries}) = 2
    /\ \A k \in NewRoadEntries : grid[roads[k]] = ROAD /\ atStepStart.grid[roads[k]] = EMPTY

\* The cell was an in-bounds Road cell when the step began
WasRoad(x, y) == <<x, y>> \in Cells /\ atStepStart.grid[<<x, y>>] = ROAD

\* The car's target integer cell: the truncation of its position advanced by its
\* speed along its direction
TargetX(k) == Trunc(k.x + dx(k.direction) * k.speed)
TargetY(k) == Trunc(k.y + dy(k.direction) * k.speed)

TargetBlocked(k) == ~WasRoad(TargetX(k), TargetY(k))

\* The directions, the reverse of the car's excepted, in which the cell next to the
\* car's truncated cell was an in-bounds Road cell
OpenDirections(k) ==
    {d \in 0..3 :
        /\ d # (k.direction + 2) % 4
        /\ WasRoad(Trunc(k.x) + dx(d), Trunc(k.y) + dy(d))}

\* The car took direction d and advanced by its speed from where it stood
Turned(old, new, d) ==
    /\ new.direction = d
    /\ new.x = old.x + dx(d) * old.speed
    /\ new.y = old.y + dy(d) * old.speed
    /\ new.roadIndex = old.roadIndex
    /\ new.speed = old.speed

\* The car stands exactly on the road-sequence entry with index r and carries r
PutOnEntry(old, new, r) ==
    /\ new.x = atStepStart.roads[r + 1][1] * Scale
    /\ new.y = atStepStart.roads[r + 1][2] * Scale
    /\ new.roadIndex = r
    /\ new.direction \in 0..3
    /\ new.speed = old.speed

\* C27: when a car's target integer cell is out of bounds or not Road, its new
\* direction is a non-reverse direction in which the cell next to its truncated cell
\* is an in-bounds Road cell, and it advances by its speed from its pre-move
\* position; only when there is no such direction is it teleported: its position is
\* exactly the coordinate of a road-sequence entry, its roadIndex that entry's
\* index, and it does not move further in that tick.
C27_BlockedCarTurnsOrTeleports ==
    pc # "idle" =>
        \A i \in CarsOfStep :
            LET old == atStepStart.cars[i]
                new == cars[i]
            IN  TargetBlocked(old) =>
                    IF OpenDirections(old) # {}
                    THEN \E d \in OpenDirections(old) : Turned(old, new, d)
                    ELSE \E r \in 0..(Len(atStepStart.roads) - 1) : PutOnEntry(old, new, r)

\* A car that stood past the edge of the grid with no Road cell to turn to was
\* teleported to another road-sequence entry
C27_Witness ==
    /\ pc # "idle"
    /\ \E i \in CarsOfStep :
         LET old == atStepStart.cars[i]
             new == cars[i]
         IN  /\ TargetBlocked(old)
             /\ OpenDirections(old) = {}
             /\ old.x < 0 \/ old.y < 0
             /\ CarCell(new.x, new.y) # CarCell(old.x, old.y)
             /\ new.roadIndex # old.roadIndex

Abs(n) == IF n < 0 THEN 0 - n ELSE n

\* The car kept direction, speed and roadIndex and moved by exactly its speed along
\* its direction, on one axis only
WentStraight(old, new) ==
    /\ new.direction = old.direction
    /\ new.speed = old.speed
    /\ new.roadIndex = old.roadIndex
    /\ new.x = old.x + dx(old.direction) * old.speed
    /\ new.y = old.y + dy(old.direction) * old.speed
    /\ new.x = old.x \/ new.y = old.y
    /\ Abs(new.x - old.x) + Abs(new.y - old.y) = old.speed

\* No step changes the speed of a car there is
SpeedsKept ==
    /\ Len(cars') >= Len(cars)
    /\ \A i \in 1..Len(cars) : cars'[i].speed = cars[i].speed

\* C28: when a car's target integer cell is an in-bounds Road cell, the tick leaves
\* its direction, speed and roadIndex unchanged and moves it by exactly its speed
\* along its direction on one axis only; a car's speed never changes after it is
\* spawned, and its direction is always one of the 4 cardinal indices 0..3.
C28_FreeCarGoesStraight ==
    /\ [](pc # "idle" =>
            \A i \in CarsOfStep :
                ~TargetBlocked(atStepStart.cars[i]) =>
                    WentStraight(atStepStart.cars[i], cars[i]))
    /\ [][SpeedsKept]_vars
    /\ [](\A i \in 1..Len(cars) : cars[i].direction \in 0..3 /\ cars[i].speed > 0)

\* A car with a Road cell ahead has crossed into it, keeping its direction
C28_Witness ==
    /\ pc # "idle"
    /\ \E i \in CarsOfStep :
         LET old == atStepStart.cars[i]
             new == cars[i]
         IN  /\ ~TargetBlocked(old)
             /\ new.direction = old.direction
             /\ CarCell(new.x, new.y) # CarCell(old.x, old.y)
             /\ WasRoad(Trunc(new.x), Trunc(new.y))

\* The age a cell had when the step began, 0 for a cell that held no record then
AgeAtStepStart(c) ==
    IF IsBuildingTag(atStepStart.grid[c]) THEN atStepStart.buildings[c].age ELSE 0

AgesGrowEveryTick ==
    TickEnds =>
        \A c \in Cells :
            IsBuildingTag(atStepStart.grid[c]) =>
                buildings[c].age = atStepStart.buildings[c].age + 1

\* C29 as stated: for every cell holding a building, Forest or Farm, the age grows
\* by exactly 1 on every tick after placement, so that a building placed during the
\* tick with step counter s has age t - s at the end of the tick with step counter t.
C29_AgeCountsTicks == [][AgesGrowEveryTick]_vars

AgesGrowEveryThirdTick ==
    TickEnds =>
        \A c \in Cells :
            IsBuildingTag(grid[c]) =>
                buildings[c].age =
                    AgeAtStepStart(c) + (IF currentStep % 3 = 0 THEN 1 ELSE 0)

\* C29 amended: the age counts the invocations of growCity: for every cell holding
\* a building, Forest or Farm it grows by exactly 1 on every tick whose step counter
\* is a multiple of 3, the tick that places the building included, and is unchanged
\* on every other tick; a Forest cell, present from initialization, has age
\* floor(t / 3) + 1 at the end of the tick with step counter t.
C29_AgeCountsInvocations ==
    /\ [][AgesGrowEveryThirdTick]_vars
    /\ [](BetweenSteps =>
            \A c \in Cells : grid[c] = FOREST => buildings[c].age = Invocations(currentStep))

\* The second tick after one that ran growCity has returned: the building that tick
\* placed still has age 1
C29_Witness ==
    /\ BetweenSteps
    /\ currentStep % 3 = 2
    /\ \E c \in Cells :
         /\ grid[c] \in {RESIDENTIAL, COMMERCIAL, INDUSTRIAL}
         /\ buildings[c].age = 1
    /\ \E c \in Cells : grid[c] = FOREST /\ buildings[c].age > 1

PromotedTags == {RESIDENTIAL, COMMERCIAL, INDUSTRIAL}

\* The density of a cell changes only when a building is placed on it, to 1, or in
\* the maturation pass, by 1, for a Residential, Commercial or Industrial cell whose
\* age after the increment is a positive multiple of 20
DensityChangesOnlyAtTwenty ==
    \A c \in Cells :
        buildings'[c].density # buildings[c].density =>
            \/ /\ grid[c] = EMPTY
               /\ grid'[c] \in PlacedTags
               /\ buildings'[c].density = 1
            \/ /\ grid[c] \in PromotedTags
               /\ grid'[c] = grid[c]
               /\ PlacementDone
               /\ buildings'[c].density = buildings[c].density + 1
               /\ buildings'[c].age = buildings[c].age + 1
               /\ buildings'[c].age > 0
               /\ buildings'[c].age % 20 = 0

\* C30: density is promoted only for Residential, Commercial or Industrial cells, by
\* exactly 1, and only in a Growth Engine invocation in which the building's age
\* after the increment is a positive multiple of 20; hence every such building has
\* density <= min(3, 1 + floor(age / 20)) in every reachable state, and a Park keeps
\* density 1 forever.
C30_PromotionEveryTwenty ==
    /\ [][DensityChangesOnlyAtTwenty]_vars
    /\ [](\A c \in Cells :
            grid[c] \in PromotedTags =>
                /\ buildings[c].density >= 1
                /\ buildings[c].density <= Min(3, 1 + buildings[c].age \div 20))
    /\ [](\A c \in Cells : grid[c] = PARK => buildings[c].density = 1)

\* A tick has promoted one building that reached age 20 and left another of the
\* same age at density 1
C30_Witness ==
    /\ BetweenSteps
    /\ \E c, e \in Cells :
         /\ grid[c] \in PromotedTags /\ grid[e] \in PromotedTags
         /\ buildings[c].age = 20 /\ buildings[e].age = 20
         /\ atStepStart.buildings[c].density = 1 /\ buildings[c].density = 2
         /\ buildings[e].density = 1

\* --------------------------------------------------------------- tree flags
TreeTags == {RESIDENTIAL, COMMERCIAL}

\* No tree flag set when the step under way began has been cleared
TreesKept == \A c \in Cells : atStepStart.buildings[c].hasTree => buildings[c].hasTree

\* C31: after initialization and after every tick, hasTree is true only in building
\* records of cells whose grid tag is Residential or Commercial, and a tree flag set
\* at the end of one tick is still set at the end of the next.
C31_TreesOnHomesAndShops ==
    BetweenSteps =>
        /\ \A c \in Cells : buildings[c].hasTree => grid[c] \in TreeTags
        /\ TreesKept

\* ------------------------------------------------- traffic before growth
\* The cars change only in the first part of a tick, which leaves the grid, the
\* records and the road sequence as the previous tick left them; the Growth Engine
\* changes these only afterwards and leaves the cars alone
TrafficThenGrowth ==
    /\ cars' # cars =>
         /\ pc = "idle"
         /\ grid' = grid /\ buildings' = buildings /\ roads' = roads
    /\ (grid' # grid \/ buildings' # buildings \/ roads' # roads) =>
         /\ pc # "idle"
         /\ cars' = cars

\* Every car there was when the tick began has what the decision taken on the grid
\* and the road sequence of that moment gives it
DecidedAtStepStart ==
    \A i \in CarsOfStep :
        LET old == atStepStart.cars[i]
            new == cars[i]
        IN  IF TargetBlocked(old)
            THEN IF OpenDirections(old) # {}
                 THEN \E d \in OpenDirections(old) : Turned(old, new, d)
                 ELSE \E r \in 0..(Len(atStepStart.roads) - 1) : PutOnEntry(old, new, r)
            ELSE WentStraight(old, new)

\* A car was spawned only under the cap counted on the road sequence of the start of
\* the tick, and onto one of its entries
SpawnedAtStepStart ==
    Len(cars) > Len(atStepStart.cars) =>
        /\ Len(cars) = Len(atStepStart.cars) + 1
        /\ Len(atStepStart.cars) < Len(atStepStart.roads) \div 5
        /\ \E r \in 0..(Len(atStepStart.roads) - 1) :
             LET k == cars[Len(cars)]
             IN  /\ k.roadIndex = r
                 /\ k.x = atStepStart.roads[r + 1][1] * Scale
                 /\ k.y = atStepStart.roads[r + 1][2] * Scale

\* C32: within one tick the traffic update completes before the Growth Engine runs:
\* every car's blocked/unblocked decision, re-routing and teleport target, and the
\* spawn cap floor(roadCount / 5), are those of the grid and the road sequence as
\* the previous tick left them, whatever the same tick builds or paves.
C32_TrafficBeforeGrowth ==
    /\ [][TrafficThenGrowth]_vars
    /\ [](pc # "idle" => DecidedAtStepStart /\ SpawnedAtStepStart)

\* A tick has paved a new road after a car with no way on was put on an entry of the
\* road sequence as it was before
C32_Witness ==
    /\ pc # "idle"
    /\ Len(roads) > Len(atStepStart.roads)
    /\ grid # atStepStart.grid
    /\ \E i \in CarsOfStep :
         LET old == atStepStart.cars[i]
         IN  /\ TargetBlocked(old)
             /\ OpenDirections(old) = {}
             /\ cars[i].roadIndex < Len(atStepStart.roads)
             /\ cars[i].roadIndex # old.roadIndex

\* ------------------------------------------------------------- branch roads
\* dist_length(5, 15): the longest branch
MaxBranchCells == 15

\* generateInitialRoads lays one branch
BranchLaid == pc = "branches" /\ todo > 0 /\ todo' = todo - 1

\* The cells the branch claims
BranchClaimed == {c \in Cells : grid[c] # ROAD /\ grid'[c] = ROAD}

\* The Road cells of the two arterials before the branch is laid
ArterialRoads == {c \in ArterialLines : grid[c] = ROAD}

\* The cells claimed are the first cells of a straight line that leaves a Road cell
\* of an arterial, at most 15 of them, and each is joined to the arterials through
\* Road cells
BranchFromArterialRoad ==
    BranchClaimed # {} =>
        /\ Cardinality(BranchClaimed) <= MaxBranchCells
        /\ \E start \in ArterialRoads, d \in 0..3 :
             BranchClaimed =
                 {<<start[1] + k * dx(d), start[2] + k * dy(d)>> :
                      k \in 1..Cardinality(BranchClaimed)}
        /\ BranchClaimed \subseteq
               ReachableIn(ArterialRoads, {c \in Cells : grid'[c] = ROAD})

\* C33: each initial branch road starts at a Road cell of one of the two arterials,
\* so that every Road cell it lays is 4-connected through Road cells to that
\* arterial; a branch claims at most 15 cells, all on one straight line from its
\* start point.
C33_BranchesLeaveArterialRoad == [][BranchLaid => BranchFromArterialRoad]_vars

\* ------------------------------------------------- the river's direction
\* One iteration of the river walk
RiverWalked == pc = "river" /\ todo' = todo - 1

\* The direction the walk had before the iteration, and the one it moved in
RiverDir == spots[2][1]

\* The value of the expression of line 229 before the test of line 230, for the
\* draw r = gen() % 3: the sum in unsigned arithmetic, reduced modulo 4
UnsignedNudge(dir, r) == ((dir + ((r - 1) % UWord)) % UWord) % 4

\* Whatever is drawn, the nudged direction is (dir + delta) mod 4 for delta = r - 1
\* in {-1, 0, 1}, and it is the unsigned value as it stands, with no correction
NudgeIsModFour ==
    \A r \in 0..2 :
        /\ NudgeDir(RiverDir, r) = (RiverDir + (r - 1)) % 4
        /\ NudgeDir(RiverDir, r) = UnsignedNudge(RiverDir, r)

\* The walk moves one cell along one axis, in a direction one of the deltas gives
WalkedCardinal ==
    LET new == spots'[2][1]
    IN  /\ new \in 0..3
        /\ \E delta \in {-1, 0, 1} : new = (RiverDir + delta) % 4
        /\ spots'[1] = <<spots[1][1] + dx(new), spots[1][2] + dy(new)>>
        /\ Abs(spots'[1][1] - spots[1][1]) + Abs(spots'[1][2] - spots[1][2]) = 1

\* C34: during a river walk the direction index stays in 0..3 after every nudge and
\* equals (dir + delta) mod 4 for the drawn delta in {-1, 0, 1}, although the
\* expression is evaluated in unsigned arithmetic where delta = -1 wraps to 2^w - 1;
\* the diagonal offsets 4..7 are never used and the correction for a negative value
\* is never needed.
C34_RiverDirectionModFour ==
    /\ [][RiverWalked => NudgeIsModFour /\ WalkedCardinal]_vars
    /\ [](pc = "river" => RiverDir \in 0..3)

\* A walk that went left from the centre was nudged by delta = -1 and went up: the
\* direction 0 became 3
C34_Witness ==
    /\ pc = "river"
    /\ idx = RiverLength
    /\ todo = RiverLength - 2
    /\ spots[1] = <<0, 0>>
    /\ RiverDir = 3

\* ------------------------------------------------- roads without repeats
\* C35: the road sequence never contains the same coordinate twice: after
\* initialization and after every tick its length equals the number of Road-tagged
\* grid cells.
C35_RoadsNoDuplicates ==
    BetweenSteps =>
        /\ NoDuplicates(roads)
        /\ Len(roads) = Cardinality({c \in DOMAIN grid : grid[c] = ROAD})

\* ------------------------------------------------ buildings along roads
\* The Road cells 4-adjacent to a cell
RoadsBeside(c) == {n \in Cells : Adjacent4(c, n) /\ grid[n] = ROAD}

\* C36: after every tick, every cell whose grid tag is Residential, Commercial,
\* Industrial or Park has at least one 4-adjacent Road cell.
C36_BuildingsBesideRoad ==
    BetweenSteps => \A c \in Cells : grid[c] \in PlacedTags => RoadsBeside(c) # {}

\* A tick has placed a building and paved a road, and a building that stood before
\* has a single Road cell beside it
C36_Witness ==
    /\ BetweenSteps
    /\ \E c \in NewlyTagged : grid[c] \in PlacedTags
    /\ \E c \in NewlyTagged : grid[c] = ROAD
    /\ \E c \in Cells :
         atStepStart.grid[c] \in PlacedTags /\ Cardinality(RoadsBeside(c)) = 1

\* --------------------------------------------------------------- Hot/Cold
\* The round is started anew: what init_game leaves
Restarted ==
    /\ game'.attempts = 0
    /\ game'.current_guess = StartGuess
    /\ game'.current_screen = "WELCOME_SCREEN"
    /\ ~game'.game_over

\* While the round is over an event leaves attempts, last_guess and current_guess
\* alone, unless it is Enter/A, which starts the round anew
FrozenWhenOver ==
    game.game_over =>
        /\ (PressUp \/ PressDown \/ PressOther \/ QuitGame) => game' = game
        /\ \/ /\ game'.attempts = game.attempts
              /\ game'.last_guess = game.last_guess
              /\ game'.current_guess = game.current_guess
              /\ game'.game_over
           \/ PressEnter /\ Restarted

\* A confirmed guess counts one attempt, and nothing else changes the count but a
\* restart
AttemptsCountGuesses ==
    game'.attempts # game.attempts =>
        \/ Restarted
        \/ /\ ~game.game_over
           /\ game'.attempts = game.attempts + 1
           /\ game'.last_guess = game.current_guess

\* C37: the attempts counter never exceeds MAX_ATTEMPTS (8): the round is over once
\* 8 guesses have been confirmed, and while game_over is true no key or button event
\* changes attempts, last_guess or current_guess until Enter/A restarts the round
\* with attempts 0, current_guess 50 and the welcome screen.
C37_RoundEndsByEight ==
    /\ [](game.attempts \in 0..MAX_ATTEMPTS)
    /\ [](game.attempts = MAX_ATTEMPTS => game.game_over)
    /\ [](game.game_over => game.current_screen = "GAME_SCREEN" /\ game.attempts >= 1)
    /\ [][FrozenWhenOver]_vars
    /\ [][AttemptsCountGuesses]_vars

\* The round was lost with the 8th guess, the guess having been moved off its start
C37_Witness ==
    /\ game.game_over
    /\ game.attempts = MAX_ATTEMPTS
    /\ game.last_guess # game.target
    /\ game.current_guess # StartGuess
    /\ game.message = "Game Over!"

\* Enter/A confirms the guess in a round under way
GuessConfirmed ==
    /\ game.current_screen = "GAME_SCREEN"
    /\ ~game.game_over
    /\ game'.attempts = game.attempts + 1

Won == game'.game_over /\ game'.message = "You won"
Lost == game'.game_over /\ game'.message = "Game Over!"

\* The outcome of a confirmed guess
GuessJudged ==
    GuessConfirmed =>
        /\ Won <=> game.current_guess = game.target
        /\ Lost <=> (game.current_guess # game.target /\ game'.attempts = MAX_ATTEMPTS)
        /\ ~game'.game_over =>
             /\ game.current_guess < game.target => game'.message = "Higher..."
             /\ game.current_guess > game.target => game'.message = "Lower..."
             /\ game'.message \in {"Higher...", "Lower..."}
        /\ game'.game_over => Won \/ Lost
        /\ game'.target = game.target

\* C38: a confirmed guess ends the round as a win if and only if current_guess equals
\* the target, including on the 8th attempt; it ends the round as a loss if and only
\* if the guess is wrong and attempts has reached 8; otherwise the round continues
\* with the hint 'Higher...' when the guess is below the target and 'Lower...' when
\* it is above, and current_guess always stays within 1..100.
C38_GuessJudged ==
    /\ [][GuessJudged]_vars
    /\ [](game.current_guess \in 1..MaxNumber)

\* The round was won with the 8th guess, at the upper end of the range
C38_Witness ==
    /\ game.game_over
    /\ game.attempts = MAX_ATTEMPTS
    /\ game.last_guess = game.target
    /\ game.target = MaxNumber
    /\ game.message = "You won"

====
